---- MODULE Spec2Model ----
(***************************************************************************)
(* State-machine model of the bizclaw-brain inference engine:              *)
(*   - KvCache (kv_cache.rs): the two f32 arenas and the position counter  *)
(*   - forward (forward.rs): the per-layer cache writes and reads          *)
(*   - Sampler (sampler.rs): repeat penalty, temperature, top-k, top-p,    *)
(*     categorical draw, and the greedy argmax                             *)
(*   - BpeTokenizer (tokenizer.rs): from_gguf, fallback, encode, decode    *)
(*   - loading (mmap.rs, model.rs, forward.rs): MmapModel::load and        *)
(*     tensor_data, ModelParams::from_gguf, TransformerWeights::from_gguf  *)
(*   - dequantize_row (quant.rs) and the embedding lookup of forward       *)
(* f32 payloads of the cache are opaque integers (0 is the 0.0 of a fresh  *)
(* arena).  Sampler arithmetic is exact rational arithmetic.               *)
(***************************************************************************)
EXTENDS Integers, Sequences, FiniteSets, TLC

VARIABLES
    \* KvCache fields (kv_cache.rs:7-20)
    key_cache, value_cache, n_layers, max_seq_len, kv_dim, pos,
    \* ModelParams fields used by forward (model.rs:9-20)
    n_heads, n_kv_heads, head_dim,
    \* TransformerWeights: status of every weight tensor (forward.rs:13-35)
    weights,
    \* history: what the last operation was and what it touched
    last, n_ops, shadow_k, shadow_v,
    \* Sampler: configuration, inputs of the call, and its outcome
    config, logits, last_tokens, outcome,
    \* BpeTokenizer: the GGUF metadata, the tokenizer built from it, and the
    \* text, token ids and decoded text of the last encode / decode
    metadata, tokenizer, text, tokens, decoded,
    \* loading: the GGUF file on disk, the build profile, the MmapModel that
    \* load returned, the ModelParams and TransformerWeights built from it,
    \* and the results of the last tensor_data and validate_model_quants
    file, overflow_checks, model, params, transformer_weights, slice,
    unsupported,
    \* dequantization: the arguments of the last dequantize_row call or
    \* embedding lookup, and what it returned and left in the output buffer
    quant_in, quant_out,
    \* tensor primitives: the call in progress (arguments, buffers, and the
    \* position of every worker thread of a parallel call)
    tensor_op,
    \* the platform: the database behind AdminState.db and the requests
    \* being handled
    platform

kvVars == <<key_cache, value_cache, n_layers, max_seq_len, kv_dim, pos>>
paramVars == <<n_heads, n_kv_heads, head_dim>>
histVars == <<last, n_ops, shadow_k, shadow_v>>
samplerVars == <<config, logits, last_tokens, outcome>>
tokVars == <<metadata, tokenizer, text, tokens, decoded>>
loadVars ==
    <<file, overflow_checks, model, params, transformer_weights, slice,
      unsupported>>
quantVars == <<quant_in, quant_out>>
auxVars == <<tensor_op, platform>>
otherVars == <<tokVars, loadVars, quantVars, auxVars>>
vars == <<kvVars, paramVars, weights, histVars, samplerVars, otherVars>>

----------------------------------------------------------------------------
(* Bounds of the model *)

MaxLayers == 2
MaxSeq == 2
MaxKvHeads == 2
MaxHeadDim == 1
MaxOps == 3
MaxPasses == 2
MaxGroup == 2
MaxVocab == 3
MaxLast == 2
\* how far past max_seq_len the position counter and a requested position go
Overrun == 1

\* payload stamp of the next write: every operation writes values of its own,
\* all different from the 0.0 fill of a fresh arena
Stamp == 10 * (n_ops + 1)

\* the vector a caller copies into a slot: element d carries stamp + d
DataVec(s, n) == [d \in 0..(n - 1) |-> s + d]

----------------------------------------------------------------------------
(* KvCache *)

ArenaLen == n_layers * max_seq_len * kv_dim

ZeroArena(total) == [i \in 0..(total - 1) |-> 0]
ZeroVec == [d \in 0..(kv_dim - 1) |-> 0]

\* key_at_mut / value_at_mut: the offset of the slot (layer, p)
SlotOffsetNoStride(layer, p) == (layer + p) * kv_dim
SlotOffset(layer, p) == (layer * max_seq_len + p) * kv_dim

\* the slice [offset, offset + len) of an arena; slicing past the end panics
InBounds(offset, len) == offset + len <= ArenaLen

\* a key_at_mut that ignores the position
key_at_mut_first(layer, p) == SlotOffset(layer, 0)
key_at_mut(layer, p) == SlotOffset(layer, p)
\* a value_at_mut that ignores the layer
value_at_mut_layer0(layer, p) == SlotOffset(0, p)
value_at_mut(layer, p) == SlotOffset(layer, p)

\* slot.copy_from_slice(data): data has length kv_dim
CopyInto(arena, offset, data) ==
    [i \in DOMAIN arena |->
        IF i >= offset /\ i < offset + kv_dim THEN data[i - offset] ELSE arena[i]]

\* keys(layer, seq_len) / values(layer, seq_len): the prefix of a layer
LayerOffset(layer) == layer * max_seq_len * kv_dim
keys(layer, seq_len) ==
    [i \in 0..(seq_len * kv_dim - 1) |-> key_cache[LayerOffset(layer) + i]]
values(layer, seq_len) ==
    [i \in 0..(seq_len * kv_dim - 1) |-> value_cache[LayerOffset(layer) + i]]

Slots == (0..(n_layers - 1)) \X (0..(max_seq_len - 1))

DirtyValues == \E i \in DOMAIN value_cache : value_cache[i] # 0
Dirty == \/ pos > 0
         \/ \E i \in DOMAIN key_cache : key_cache[i] # 0
         \/ DirtyValues

Note(op, layer, p) ==
    [op |-> op, layer |-> layer, pos |-> p, token |-> 0, dirty |-> Dirty,
     dirtyv |-> DirtyValues, result |-> "ok", written |-> {}, read |-> {},
     alien |-> {}, seen |-> {}]

NoteNew ==
    [op |-> "new", layer |-> 0, pos |-> 0, token |-> 0, dirty |-> FALSE,
     dirtyv |-> FALSE, result |-> "ok", written |-> {}, read |-> {},
     alien |-> {}, seen |-> {}]

\* KvCache::new(n_layers, max_seq_len, n_kv_heads, head_dim)
new(nl, ms, nkv, hd) ==
    /\ n_layers = nl
    /\ max_seq_len = ms
    /\ kv_dim = nkv * hd
    /\ key_cache = ZeroArena(nl * ms * nkv * hd)
    /\ value_cache = ZeroArena(nl * ms * nkv * hd)
    /\ pos = 0

\* kv_cache.key_at_mut(layer, p).copy_from_slice(data), slot in range
KeyWrite ==
    /\ n_ops < MaxOps
    /\ \E sl \in Slots :
        LET data == DataVec(Stamp, kv_dim) IN
        /\ key_cache' = CopyInto(key_cache, key_at_mut(sl[1], sl[2]), data)
        /\ shadow_k' = [shadow_k EXCEPT ![sl] = data]
        /\ last' = Note("key_at_mut", sl[1], sl[2])
    /\ n_ops' = n_ops + 1
    /\ UNCHANGED <<value_cache, n_layers, max_seq_len, kv_dim, pos, shadow_v>>
    /\ UNCHANGED <<paramVars, weights, samplerVars, otherVars>>

\* kv_cache.value_at_mut(layer, p).copy_from_slice(data), slot in range
ValueWrite ==
    /\ n_ops < MaxOps
    /\ \E sl \in Slots :
        LET data == DataVec(Stamp, kv_dim) IN
        /\ value_cache' = CopyInto(value_cache, value_at_mut(sl[1], sl[2]), data)
        /\ shadow_v' = [shadow_v EXCEPT ![sl] = data]
        /\ last' = Note("value_at_mut", sl[1], sl[2])
    /\ n_ops' = n_ops + 1
    /\ UNCHANGED <<key_cache, n_layers, max_seq_len, kv_dim, pos, shadow_k>>
    /\ UNCHANGED <<paramVars, weights, samplerVars, otherVars>>

\* KvCache::advance
advance ==
    /\ n_ops < MaxOps
    /\ pos < max_seq_len + Overrun
    /\ pos' = pos + 1
    /\ last' = Note("advance", 0, pos)
    /\ n_ops' = n_ops + 1
    /\ UNCHANGED <<key_cache, value_cache, n_layers, max_seq_len, kv_dim>>
    /\ UNCHANGED <<shadow_k, shadow_v, paramVars, weights, samplerVars, otherVars>>

\* KvCache::reset
ResetKeepsValues(kc, vc) == <<ZeroArena(ArenaLen), vc, 0>>
ResetResult(kc, vc) == <<ZeroArena(ArenaLen), ZeroArena(ArenaLen), 0>>

reset ==
    /\ n_ops < MaxOps
    /\ LET r == ResetResult(key_cache, value_cache) IN
        /\ key_cache' = r[1]
        /\ value_cache' = r[2]
        /\ pos' = r[3]
    /\ shadow_k' = [sl \in Slots |-> ZeroVec]
    /\ shadow_v' = [sl \in Slots |-> ZeroVec]
    /\ last' = Note("reset", 0, pos)
    /\ n_ops' = n_ops + 1
    /\ UNCHANGED <<n_layers, max_seq_len, kv_dim>>
    /\ UNCHANGED <<paramVars, weights, samplerVars, otherVars>>

----------------------------------------------------------------------------
(* TransformerWeights and forward *)

\* A weight is "ok" (found, and tensor_data / dequantize_row succeed),
\* "missing" (find returned None) or "bad" (found, but tensor_data or
\* dequantize_row returns an error, e.g. an unsupported quantization type).
WeightStatus == {"ok", "missing", "bad"}

LayerWeightNames ==
    {"attn_norm", "attn_q", "attn_k", "attn_v", "attn_output",
     "ffn_norm", "ffn_gate", "ffn_up", "ffn_down"}

WeightsAllOk(nl) ==
    [token_embd |-> "ok", output_norm |-> "ok", output |-> "ok",
     layers |-> [l \in 0..(nl - 1) |-> [w \in LayerWeightNames |-> "ok"]]]

\* the weight files the model is run on: a complete one, and files with one
\* tensor absent or undecodable
WeightFiles(nl) ==
    {WeightsAllOk(nl),
     [WeightsAllOk(nl) EXCEPT !.token_embd = "missing"],
     [WeightsAllOk(nl) EXCEPT !.output = "missing"],
     [WeightsAllOk(nl) EXCEPT !.layers[0]["attn_q"] = "missing"],
     [WeightsAllOk(nl) EXCEPT !.layers[nl - 1]["attn_output"] = "missing"],
     [WeightsAllOk(nl) EXCEPT !.layers[0]["ffn_down"] = "bad"]}

\* matmul_weight(model, tensor_idx, ..): fails on a missing or undecodable weight
matmul_weight_ok(st) == st = "ok"
\* dequant_weight(model, norm_idx, ..) under `if let Some(norm_idx)`: a missing
\* norm is replaced by a copy, an undecodable one fails
norm_ok(st) == st # "bad"

\* GQA: the kv head of query head h
kv_head(h) == (h * n_kv_heads) \div n_heads

\* the arena indices query head h gathers at layer l: k_start = t * kv_dim +
\* kv_h * head_dim for each cached position t
HeadGather(l, seq_len, h) ==
    {LayerOffset(l) + t * kv_dim + kv_head(h) * head_dim + i :
        t \in 0..(seq_len - 1), i \in 0..(head_dim - 1)}

\* the arena indices attention gathers at layer l for seq_len cached positions
GatherIndices(l, seq_len) ==
    UNION {HeadGather(l, seq_len, h) : h \in 0..(n_heads - 1)}

Tag(name, S) == {<<name, i>> : i \in S}

\* the arena indices among S that lie outside the region of layer l
OutsideLayer(l, S) ==
    {i \in S : i < LayerOffset(l) \/ i >= LayerOffset(l + 1)}

\* the k and v vectors of one layer of one pass
LayerStamp(l, stamp) == 100 * (l + 1) + stamp

\* Step 2 of forward from layer l on, then steps 3 and 4.  acc carries the two
\* arenas and the arena indices written and read so far.
RECURSIVE forward_layers(_, _, _, _)
forward_layers(l, p, stamp, acc) ==
    IF l = n_layers
    THEN IF norm_ok(weights.output_norm) /\ matmul_weight_ok(weights.output)
         THEN [acc EXCEPT !.result = "ok"]
         ELSE [acc EXCEPT !.result = "err"]
    ELSE
    LET w == weights.layers[l]
        seq_len == p + 1
        koff == key_at_mut(l, p)
        voff == value_at_mut(l, p)
        data == DataVec(LayerStamp(l, stamp), kv_dim)
    IN
    IF ~ norm_ok(w["attn_norm"]) THEN [acc EXCEPT !.result = "err"]
    ELSE IF ~ ( /\ matmul_weight_ok(w["attn_q"])
                /\ matmul_weight_ok(w["attn_k"])
                /\ matmul_weight_ok(w["attn_v"]) )
    THEN [acc EXCEPT !.result = "err"]
    ELSE IF ~ InBounds(koff, kv_dim) THEN [acc EXCEPT !.result = "panic"]
    ELSE
    LET acc1 == [acc EXCEPT
                    !.key = CopyInto(acc.key, koff, data),
                    !.value = CopyInto(acc.value, voff, data),
                    !.written = acc.written
                        \cup Tag("k", koff..(koff + kv_dim - 1))
                        \cup Tag("v", voff..(voff + kv_dim - 1)),
                    !.alien = acc.alien
                        \cup Tag("w", OutsideLayer(l, koff..(koff + kv_dim - 1)))]
    IN
    IF ~ InBounds(LayerOffset(l), seq_len * kv_dim)
    THEN [acc1 EXCEPT !.result = "panic"]
    ELSE
    LET acc2 == [acc1 EXCEPT
                    !.read = acc1.read
                        \cup Tag("k", GatherIndices(l, seq_len))
                        \cup Tag("v", GatherIndices(l, seq_len)),
                    !.alien = acc1.alien
                        \cup Tag("r", OutsideLayer(l, GatherIndices(l, seq_len))),
                    !.seen = acc1.seen
                        \cup {<<"k", i, acc1.key[i]>> :
                                i \in GatherIndices(l, seq_len)}
                        \cup {<<"v", i, acc1.value[i]>> :
                                i \in GatherIndices(l, seq_len)}]
    IN
    IF ~ matmul_weight_ok(w["attn_output"]) THEN [acc2 EXCEPT !.result = "err"]
    ELSE IF ~ norm_ok(w["ffn_norm"]) THEN [acc2 EXCEPT !.result = "err"]
    ELSE IF ~ ( /\ matmul_weight_ok(w["ffn_gate"])
                /\ matmul_weight_ok(w["ffn_up"])
                /\ matmul_weight_ok(w["ffn_down"]) )
    THEN [acc2 EXCEPT !.result = "err"]
    ELSE forward_layers(l + 1, p, stamp, acc2)

\* forward(model, weights, params, kv_cache, token, pos, logits)
forward_result(token, p, stamp) ==
    LET acc0 == [key |-> key_cache, value |-> value_cache,
                 written |-> {}, read |-> {}, alien |-> {}, seen |-> {},
                 result |-> "ok"]
    IN
    IF ~ matmul_weight_ok(weights.token_embd)
    THEN [acc0 EXCEPT !.result = "err"]
    ELSE forward_layers(0, p, stamp + token, acc0)

Tokens == {0, 1}

forward ==
    /\ n_ops < MaxPasses
    /\ last.result # "panic"
    /\ \E token \in Tokens, p \in 0..(max_seq_len + Overrun) :
        LET r == forward_result(token, p, Stamp) IN
        /\ key_cache' = r.key
        /\ value_cache' = r.value
        /\ last' = [Note("forward", 0, p) EXCEPT
                        !.token = token, !.result = r.result,
                        !.written = r.written, !.read = r.read,
                        !.alien = r.alien, !.seen = r.seen]
    /\ n_ops' = n_ops + 1
    /\ UNCHANGED <<n_layers, max_seq_len, kv_dim, pos>>
    /\ UNCHANGED <<shadow_k, shadow_v, paramVars, weights, samplerVars, otherVars>>

\* KvCache::reset between generations
reset_generation ==
    /\ n_ops < MaxPasses
    /\ last.result # "panic"
    /\ reset

\* One step of the generation loop: the forward pass of the next token (a
\* prompt token or the token sampled last) at the cache's position, then
\* advance.  The loop stops when the position reaches max_seq_len and when a
\* pass fails.  shadow_k and shadow_v keep, per slot, the k and v vectors the
\* pass at that position produced.
generate_step ==
    /\ n_ops < MaxOps
    /\ last.result = "ok"
    /\ pos < max_seq_len
    /\ \E token \in Tokens :
        LET r == forward_result(token, pos, Stamp)
            produced(sl) == DataVec(LayerStamp(sl[1], Stamp + token), kv_dim)
        IN
        /\ key_cache' = r.key
        /\ value_cache' = r.value
        /\ last' = [Note("generate", 0, pos) EXCEPT
                        !.token = token, !.result = r.result,
                        !.written = r.written, !.read = r.read,
                        !.alien = r.alien, !.seen = r.seen]
        /\ pos' = IF r.result = "ok" THEN pos + 1 ELSE pos
        /\ shadow_k' = [sl \in Slots |->
                IF sl[2] = pos /\ <<"k", key_at_mut(sl[1], pos)>> \in r.written
                THEN produced(sl) ELSE shadow_k[sl]]
        /\ shadow_v' = [sl \in Slots |->
                IF sl[2] = pos /\ <<"v", value_at_mut(sl[1], pos)>> \in r.written
                THEN produced(sl) ELSE shadow_v[sl]]
    /\ n_ops' = n_ops + 1
    /\ UNCHANGED <<n_layers, max_seq_len, kv_dim>>
    /\ UNCHANGED <<paramVars, weights, samplerVars, otherVars>>

----------------------------------------------------------------------------
(* Rational numbers <<numerator, denominator>> in lowest terms stand for the  *)
(* f32 values of the sampler                                                  *)

Abs(n) == IF n < 0 THEN -n ELSE n

RECURSIVE GCD(_, _)
GCD(a, b) == IF b = 0 THEN a ELSE GCD(b, a % b)

R(n, d) ==
    LET sn == IF d < 0 THEN -n ELSE n
        sd == Abs(d)
        g == GCD(Abs(sn), sd)
    IN <<sn \div g, sd \div g>>

RZero == <<0, 1>>
ROne == <<1, 1>>
RAdd(a, b) == R(a[1] * b[2] + b[1] * a[2], a[2] * b[2])
RSub(a, b) == R(a[1] * b[2] - b[1] * a[2], a[2] * b[2])
RMul(a, b) == R(a[1] * b[1], a[2] * b[2])
RDiv(a, b) == R(a[1] * b[2], a[2] * b[1])
RLess(a, b) == a[1] * b[2] < b[1] * a[2]
RLeq(a, b) == a[1] * b[2] <= b[1] * a[2]

\* (v - max_logit).exp() for v <= max_logit: the rational 1 / (1 - x) stands for
\* e^x; like e^x it is positive, strictly increasing, and 1 at x = 0
RExp(x) == RDiv(ROne, RSub(ROne, x))

RECURSIVE RSum(_)
RSum(ps) == IF ps = <<>> THEN RZero ELSE RAdd(ps[1][2], RSum(Tail(ps)))

Min(a, b) == IF a < b THEN a ELSE b

----------------------------------------------------------------------------
(* Sampler::sample.  logits[i + 1] is the logit of token id i.               *)

\* the window of last_tokens the repeat penalty looks at
penalty_window(toks, cfg) ==
    LET n == Min(Len(toks), cfg.repeat_last_n)
    IN SubSeq(toks, Len(toks) - n + 1, Len(toks))

\* one step of the penalty loop
penalise_boost(lg, idx, penalty) ==
    IF idx < Len(lg)
    THEN [lg EXCEPT ![idx + 1] = RMul(lg[idx + 1], penalty)]
    ELSE lg
penalise_one(lg, idx, penalty) ==
    IF idx < Len(lg)
    THEN IF RLess(RZero, lg[idx + 1])
         THEN [lg EXCEPT ![idx + 1] = RDiv(lg[idx + 1], penalty)]
         ELSE [lg EXCEPT ![idx + 1] = RMul(lg[idx + 1], penalty)]
    ELSE lg

RECURSIVE penalise_all(_, _, _)
penalise_all(lg, window, penalty) ==
    IF window = <<>> THEN lg
    ELSE penalise_all(penalise_one(lg, window[1], penalty), Tail(window), penalty)

\* "Apply repeat penalty"
repeat_penalty_step(lg, toks, cfg) ==
    IF cfg.repeat_penalty # ROne
    THEN penalise_all(lg, penalty_window(toks, cfg), cfg.repeat_penalty)
    ELSE lg

\* "Apply temperature"
temperature_step(lg, cfg) ==
    IF RLess(RZero, cfg.temperature) /\ cfg.temperature # ROne
    THEN [i \in 1..Len(lg) |-> RMul(lg[i], RDiv(ROne, cfg.temperature))]
    ELSE lg

\* the greedy branch is taken when temperature <= 0.0
is_greedy_strict(cfg) == RLess(cfg.temperature, RZero)
is_greedy(cfg) == RLeq(cfg.temperature, RZero)

\* argmax: Iterator::max_by keeps the later of two elements that compare equal
RECURSIVE max_by(_, _, _)
max_by(lg, best, i) ==
    IF i > Len(lg) THEN best
    ELSE IF RLess(lg[i], lg[best]) THEN max_by(lg, best, i + 1)
    ELSE max_by(lg, i, i + 1)

argmax(lg) == IF lg = <<>> THEN 0 ELSE max_by(lg, 1, 2) - 1

\* indices.sort_by(|a, b| b.1.partial_cmp(&a.1)): a stable sort, descending by
\* logit; elements that compare equal keep their order
RECURSIVE insert_sorted(_, _)
insert_sorted(sorted, x) ==
    IF sorted = <<>> THEN <<x>>
    ELSE IF RLess(sorted[1][2], x[2]) THEN <<x>> \o sorted
    ELSE <<sorted[1]>> \o insert_sorted(Tail(sorted), x)

RECURSIVE sort_from(_, _, _)
sort_from(items, sorted, i) ==
    IF i > Len(items) THEN sorted
    ELSE sort_from(items, insert_sorted(sorted, items[i]), i + 1)

sorted_indices(lg) ==
    sort_from([i \in 1..Len(lg) |-> <<i - 1, lg[i]>>], <<>>, 1)

\* "Top-K filtering": the number of candidates kept
top_k_unguarded(cfg, n) == Min(cfg.top_k, n)
top_k_count(cfg, n) == IF cfg.top_k > 0 THEN Min(cfg.top_k, n) ELSE n

Truncate(seq, n) == SubSeq(seq, 1, Min(n, Len(seq)))

\* p.1 /= sum for every p
normalise(ps) ==
    LET sum == RSum(ps)
    IN [i \in 1..Len(ps) |-> <<ps[i][1], RDiv(ps[i][2], sum)>>]

\* "Softmax" over the candidates
softmax_step(cands) ==
    LET max_logit == cands[1][2]
    IN normalise([i \in 1..Len(cands) |->
                    <<cands[i][1], RExp(RSub(cands[i][2], max_logit))>>])

\* the cumulative probability of the first n entries
RECURSIVE cumulative(_, _)
cumulative(ps, n) == IF n = 0 THEN RZero ELSE RAdd(cumulative(ps, n - 1), ps[n][2])

\* "Top-P": the cutoff of the scan
top_p_cutoff_inclusive(ps, top_p) ==
    LET hits == {i \in 1..Len(ps) : RLeq(top_p, cumulative(ps, i))}
    IN IF hits = {} THEN Len(ps) ELSE CHOOSE i \in hits : \A j \in hits : i <= j
top_p_cutoff(ps, top_p) ==
    LET hits == {i \in 1..Len(ps) : RLess(top_p, cumulative(ps, i))}
    IN IF hits = {} THEN Len(ps) ELSE CHOOSE i \in hits : \A j \in hits : i <= j

top_p_step(ps, cfg) ==
    IF RLess(cfg.top_p, ROne)
    THEN normalise(Truncate(ps, top_p_cutoff(ps, cfg.top_p)))
    ELSE ps

\* "Random sampling": the first candidate whose cumulative mass exceeds r,
\* else the last candidate, else 0
draw(ps, r) ==
    LET hits == {i \in 1..Len(ps) : RLess(r, cumulative(ps, i))}
    IN IF hits # {} THEN ps[CHOOSE i \in hits : \A j \in hits : i <= j][1]
       ELSE IF ps # <<>> THEN ps[Len(ps)][1]
       ELSE 0

\* Sampler::sample(logits, last_tokens) with r the value of rng.gen()
sample_result(lg, toks, cfg, r) ==
    LET penalised == repeat_penalty_step(lg, toks, cfg)
        scaled == temperature_step(penalised, cfg)
        base == [status |-> "ok", token |-> 0, input |-> lg,
                 penalised |-> penalised,
                 logits |-> scaled, sorted |-> <<>>, cands |-> <<>>,
                 probs |-> <<>>, kept |-> <<>>, rng_calls |-> 0, r |-> RZero]
    IN
    IF is_greedy(cfg) THEN [base EXCEPT !.token = argmax(scaled)]
    ELSE
    LET sorted == sorted_indices(scaled)
        cands == Truncate(sorted, top_k_count(cfg, Len(sorted)))
    IN
    IF cands = <<>>
    THEN [base EXCEPT !.status = "panic", !.sorted = sorted]
    ELSE
    LET probs == softmax_step(cands)
        kept == top_p_step(probs, cfg)
    IN [base EXCEPT !.token = draw(kept, r), !.sorted = sorted,
                    !.cands = cands, !.probs = probs, !.kept = kept,
                    !.rng_calls = 1, !.r = r]

\* the values rng.gen::<f32>() is drawn from, all in [0, 1)
Draws == {R(0, 1), R(1, 2), R(99, 100)}

sample ==
    /\ outcome = <<>>
    /\ \E r \in Draws :
        LET res == sample_result(logits, last_tokens, config, r) IN
        /\ outcome' = res
        /\ logits' = res.logits
    /\ UNCHANGED <<config, last_tokens, kvVars, paramVars, weights, histVars, otherVars>>

----------------------------------------------------------------------------
(* Idle values of the parts a specification does not exercise *)

SamplerIdle ==
    /\ config = <<>>
    /\ logits = <<>>
    /\ last_tokens = <<>>
    /\ outcome = <<>>

TokIdle ==
    /\ metadata = <<>>
    /\ tokenizer = <<>>
    /\ text = <<>>
    /\ tokens = <<>>
    /\ decoded = <<>>

LoadIdle ==
    /\ file = <<>>
    /\ overflow_checks = FALSE
    /\ model = <<>>
    /\ params = <<>>
    /\ transformer_weights = <<>>
    /\ slice = <<>>
    /\ unsupported = <<>>

QuantIdle ==
    /\ quant_in = <<>>
    /\ quant_out = <<>>

AuxIdle ==
    /\ tensor_op = <<>>
    /\ platform = <<>>

OtherIdle == TokIdle /\ LoadIdle /\ QuantIdle /\ AuxIdle

----------------------------------------------------------------------------
(* SpecKv: a KvCache under direct use of its interface *)

InitKv ==
    /\ \E nl \in 1..MaxLayers, ms \in {MaxSeq}, nkv \in {MaxKvHeads},
          hd \in {MaxHeadDim} :
        /\ new(nl, ms, nkv, hd)
        /\ n_kv_heads = nkv
        /\ head_dim = hd
        /\ n_heads = nkv
        /\ shadow_k = [sl \in (0..(nl - 1)) \X (0..(ms - 1)) |->
                          [d \in 0..(nkv * hd - 1) |-> 0]]
        /\ shadow_v = [sl \in (0..(nl - 1)) \X (0..(ms - 1)) |->
                          [d \in 0..(nkv * hd - 1) |-> 0]]
    /\ weights = WeightsAllOk(n_layers)
    /\ last = NoteNew
    /\ n_ops = 0
    /\ SamplerIdle
    /\ OtherIdle

NextKv == KeyWrite \/ ValueWrite \/ advance \/ reset

SpecKv == InitKv /\ [][NextKv]_vars

----------------------------------------------------------------------------
(* SpecForward: forward passes over a cache built for the model's params *)

InitForward ==
    /\ \E nl \in 1..MaxLayers, ms \in {MaxSeq}, nkv \in {MaxKvHeads},
          hd \in {MaxHeadDim}, g \in 1..MaxGroup :
        /\ new(nl, ms, nkv, hd)
        /\ n_kv_heads = nkv
        /\ head_dim = hd
        /\ n_heads = nkv * g
        /\ weights \in WeightFiles(nl)
        /\ shadow_k = [sl \in (0..(nl - 1)) \X (0..(ms - 1)) |->
                          [d \in 0..(nkv * hd - 1) |-> 0]]
        /\ shadow_v = [sl \in (0..(nl - 1)) \X (0..(ms - 1)) |->
                          [d \in 0..(nkv * hd - 1) |-> 0]]
    /\ last = NoteNew
    /\ n_ops = 0
    /\ SamplerIdle
    /\ OtherIdle

NextForward == forward \/ reset_generation

SpecForward == InitForward /\ [][NextForward]_vars

\* SpecGenerate: generations over one cache, reset between them
NextGenerate == generate_step \/ reset

SpecGenerate == InitForward /\ [][NextGenerate]_vars

\* SpecGqa: forward passes with the head counts ModelParams::from_gguf lets
\* through, which need not divide one another
InitGqa ==
    /\ \E nl \in 1..MaxLayers, ms \in {MaxSeq}, nkv \in 1..MaxKvHeads,
          hd \in {MaxHeadDim}, nh \in 1..(MaxKvHeads * MaxGroup) :
        /\ new(nl, ms, nkv, hd)
        /\ n_kv_heads = nkv
        /\ head_dim = hd
        /\ n_heads = nh
        /\ weights = WeightsAllOk(nl)
        /\ shadow_k = [sl \in (0..(nl - 1)) \X (0..(ms - 1)) |->
                          [d \in 0..(nkv * hd - 1) |-> 0]]
        /\ shadow_v = [sl \in (0..(nl - 1)) \X (0..(ms - 1)) |->
                          [d \in 0..(nkv * hd - 1) |-> 0]]
    /\ last = NoteNew
    /\ n_ops = 0
    /\ SamplerIdle
    /\ OtherIdle

SpecGqa == InitGqa /\ [][NextForward]_vars

----------------------------------------------------------------------------
(* SpecGreedy and SpecSampler: one call of Sampler::sample on drawn inputs *)

KvIdle ==
    /\ new(1, 1, 1, 1)
    /\ n_heads = 1 /\ n_kv_heads = 1 /\ head_dim = 1
    /\ weights = WeightsAllOk(1)
    /\ shadow_k = [sl \in {<<0, 0>>} |-> [d \in {0} |-> 0]]
    /\ shadow_v = [sl \in {<<0, 0>>} |-> [d \in {0} |-> 0]]
    /\ last = NoteNew
    /\ n_ops = 0

LogitVals == {R(-1, 1), R(0, 1), R(1, 1), R(2, 1)}
LogitVectors == UNION {[1..n -> LogitVals] : n \in 1..MaxVocab}

\* token ids of the history: two small ids and one past every vocabulary
TokenIds == {0, 1, MaxVocab}
TokenSeqs(maxlen) == UNION {[1..n -> TokenIds] : n \in 0..maxlen}

\* temperature <= 0: the greedy branch, under every repeat-penalty setting
InitGreedy ==
    /\ KvIdle
    /\ OtherIdle
    /\ logits \in LogitVectors
    /\ last_tokens \in TokenSeqs(MaxLast)
    /\ config \in [temperature : {R(0, 1), R(-1, 1)},
                    top_p : {R(9, 10)},
                    top_k : {40},
                    repeat_penalty : {ROne, R(2, 1)},
                    repeat_last_n : 0..MaxLast]
    /\ outcome = <<>>

\* temperature >= 0: sort, top-k, softmax, top-p and the draw
InitSampler ==
    /\ KvIdle
    /\ OtherIdle
    /\ logits \in LogitVectors
    /\ last_tokens \in {<<>>, <<0>>}
    /\ config \in [temperature : {R(0, 1), R(1, 2), ROne},
                    top_p : {R(0, 1), R(1, 2), ROne},
                    top_k : {0, 1, 2},
                    repeat_penalty : {ROne, R(2, 1)},
                    repeat_last_n : {64}]
    /\ outcome = <<>>

SpecGreedy == InitGreedy /\ [][sample]_vars
SpecSampler == InitSampler /\ [][sample]_vars

----------------------------------------------------------------------------
(* BpeTokenizer (tokenizer.rs).  A String is the sequence of its UTF-8      *)
(* bytes; an Option is a sequence of length 0 or 1; token ids count from 0. *)

MaxText == 3

\* format!("{}", byte as char): the char U+0000..U+00FF of that number, one
\* byte of UTF-8 below 0x80 and two bytes from there on
char_string(byte) ==
    IF byte < 128 THEN <<byte>>
    ELSE <<192 + (byte \div 64), 128 + (byte % 64)>>

HexDigit(n) == IF n < 10 THEN 48 + n ELSE 55 + n

\* format!("<0x{:02X}>", byte)
hex_string(byte) ==
    <<60, 48, 120, HexDigit(byte \div 16), HexDigit(byte % 16), 62>>

\* the string "<unk>"
unk == <<60, 117, 110, 107, 62>>

\* GgufValue: a tagged value of the metadata store
GgufString(s) == [kind |-> "String", val |-> s]
GgufU32(n) == [kind |-> "U32", val |-> n]
GgufF32(x) == [kind |-> "F32", val |-> x]
GgufArray(arr) == [kind |-> "Array", val |-> arr]

as_str(v) == IF v.kind = "String" THEN <<v.val>> ELSE <<>>
as_f32(v) == IF v.kind = "F32" THEN <<v.val>> ELSE <<>>
as_u32(v) == IF v.kind = "U32" THEN <<v.val>> ELSE <<>>

\* HashMap::get
get(map, key) == IF key \in DOMAIN map THEN <<map[key]>> ELSE <<>>

\* metadata.get(key).and_then(|v| match v { Array(arr) => Some(arr), _ => None })
get_array(md, key) ==
    IF key \in DOMAIN md /\ md[key].kind = "Array" THEN <<md[key].val>>
    ELSE <<>>

\* metadata.get(key).and_then(|v| v.as_u32()).unwrap_or(default)
get_u32_or(md, key, default) ==
    IF key \in DOMAIN md /\ as_u32(md[key]) # <<>> THEN as_u32(md[key])[1]
    ELSE default

\* tokens.iter().filter_map(|v| v.as_str()).collect()
filter_map_str(arr) ==
    LET kept == SelectSeq(arr, LAMBDA v : as_str(v) # <<>>)
    IN  [i \in 1..Len(kept) |-> as_str(kept[i])[1]]

\* arr.iter().filter_map(|v| v.as_f32()).collect()
filter_map_f32(arr) ==
    LET kept == SelectSeq(arr, LAMBDA v : as_f32(v) # <<>>)
    IN  [i \in 1..Len(kept) |-> as_f32(kept[i])[1]]

\* vocab.iter().enumerate().map(|(i, t)| (t, i)).collect::<HashMap>():
\* the pairs are inserted in order, a later pair replacing an equal key, so
\* a string keeps the id of its last position
collect_token_to_id(vocab) ==
    [t \in {vocab[i] : i \in 1..Len(vocab)} |->
        (CHOOSE i \in 1..Len(vocab) :
            /\ vocab[i] = t
            /\ \A j \in (i + 1)..Len(vocab) : vocab[j] # t) - 1]

\* BpeTokenizer::from_gguf
from_gguf_result(md) ==
    LET toks == get_array(md, "tokenizer.ggml.tokens") IN
    IF toks = <<>>
    THEN [status |-> "err", msg |-> "Missing tokenizer.ggml.tokens"]
    ELSE
    LET vocab == filter_map_str(toks[1])
        sc == get_array(md, "tokenizer.ggml.scores")
    IN
    IF vocab = <<>>
    THEN [status |-> "err", msg |-> "Empty vocabulary"]
    ELSE [status |-> "ok",
          vocab |-> vocab,
          token_to_id |-> collect_token_to_id(vocab),
          scores |-> IF sc # <<>> THEN filter_map_f32(sc[1])
                     ELSE [i \in 1..Len(vocab) |-> 0],
          bos_id |-> get_u32_or(md, "tokenizer.ggml.bos_token_id", 1),
          eos_id |-> get_u32_or(md, "tokenizer.ggml.eos_token_id", 2),
          pad_id |-> get_u32_or(md, "tokenizer.ggml.padding_token_id", 0)]

\* BpeTokenizer::fallback: "<pad>", "<bos>", "<eos>", " "
fallback_vocab ==
    << <<60, 112, 97, 100, 62>>, <<60, 98, 111, 115, 62>>,
       <<60, 101, 111, 115, 62>>, <<32>> >>

fallback_result ==
    [status |-> "ok",
     vocab |-> fallback_vocab,
     token_to_id |-> collect_token_to_id(fallback_vocab),
     scores |-> [i \in 1..Len(fallback_vocab) |-> 0],
     bos_id |-> 1, eos_id |-> 2, pad_id |-> 0]

\* BpeTokenizer::decode_token
decode_token(tk, id) ==
    IF id < Len(tk.vocab) THEN tk.vocab[id + 1] ELSE unk

\* BpeTokenizer::decode: the token strings joined with ""
RECURSIVE decode(_, _)
decode(tk, ids) ==
    IF ids = <<>> THEN <<>>
    ELSE decode_token(tk, Head(ids)) \o decode(tk, Tail(ids))

\* step 1 of encode: the token of one byte of the text
byte_token(tk, byte) ==
    LET direct == get(tk.token_to_id, char_string(byte))
        hex == get(tk.token_to_id, hex_string(byte))
    IN  IF direct # <<>> THEN direct[1]
        ELSE IF hex # <<>> THEN hex[1]
        ELSE tk.pad_id

byte_tokens(tk, s) == [i \in 1..Len(s) |-> byte_token(tk, s[i])]

\* f32::NEG_INFINITY: below every finite score, and not above itself
NegInf == -1000000

\* the scan of one round of step 2: best.idx = -1 stands for usize::MAX, and
\* best.score starts at f32::NEG_INFINITY
RECURSIVE best_merge(_, _, _, _)
best_merge(tk, toks, i, best) ==
    IF i > Len(toks) - 1 THEN best
    ELSE
    LET merged == decode_token(tk, toks[i]) \o decode_token(tk, toks[i + 1])
        found == get(tk.token_to_id, merged)
        id == found[1]
        score == IF id < Len(tk.scores) THEN tk.scores[id + 1] ELSE 0
    IN  IF found # <<>> /\ score > best.score
        THEN best_merge(tk, toks, i + 1,
                        [score |-> score, idx |-> i, id |-> id])
        ELSE best_merge(tk, toks, i + 1, best)

\* tokens[best_idx] = best_id; tokens.remove(best_idx + 1)
apply_merge(toks, idx, id) ==
    [j \in 1..(Len(toks) - 1) |->
        IF j < idx THEN toks[j] ELSE IF j = idx THEN id ELSE toks[j + 1]]

\* step 2 of encode: merge the best pair until no pair merges
RECURSIVE merge_loop(_, _)
merge_loop(tk, toks) ==
    IF Len(toks) < 2 THEN toks
    ELSE
    LET best == best_merge(tk, toks, 1,
                           [score |-> NegInf, idx |-> -1, id |-> 0])
    IN  IF best.idx = -1 THEN toks
        ELSE merge_loop(tk, apply_merge(toks, best.idx, best.id))

\* BpeTokenizer::encode
encode(tk, s) ==
    IF s = <<>> THEN <<>> ELSE merge_loop(tk, byte_tokens(tk, s))

(* the metadata the tokenizer is built from *)

ByteEscapes == [b \in 1..256 |-> GgufString(hex_string(b - 1))]
AsciiBytes == [b \in 1..128 |-> GgufString(char_string(b - 1))]
HighEscapes == [b \in 1..128 |-> GgufString(hex_string(b + 127))]
Specials == << GgufString(unk), GgufString(<<60, 115, 62>>),
               GgufString(<<60, 47, 115, 62>>) >>
Zeros(n) == [i \in 1..n |-> GgufF32(0)]

\* pieces "A", "B", "AB", "BA", "ABA" and their merge scores
Pieces == << GgufString(<<65>>), GgufString(<<66>>), GgufString(<<65, 66>>),
             GgufString(<<66, 65>>), GgufString(<<65, 66, 65>>) >>
PieceScores == << GgufF32(0), GgufF32(0), GgufF32(-1), GgufF32(-2),
                  GgufF32(-3) >>
PieceScoresRev == << GgufF32(0), GgufF32(0), GgufF32(-2), GgufF32(-1),
                     GgufF32(-3) >>
\* "AB" with the score -inf
PieceScoresInf == << GgufF32(0), GgufF32(0), GgufF32(NegInf), GgufF32(-2),
                     GgufF32(-3) >>

Tokens_key == "tokenizer.ggml.tokens"
Scores_key == "tokenizer.ggml.scores"

Metadatas ==
    { \* LLaMA layout: specials, the 256 byte escapes, then pieces
      (Tokens_key :> GgufArray(Specials \o ByteEscapes \o Pieces)) @@
      (Scores_key :> GgufArray(Zeros(259) \o PieceScores)),
      (Tokens_key :> GgufArray(Specials \o ByteEscapes \o Pieces)) @@
      (Scores_key :> GgufArray(Zeros(259) \o PieceScoresRev)),
      (Tokens_key :> GgufArray(Specials \o ByteEscapes \o Pieces)) @@
      (Scores_key :> GgufArray(Zeros(259) \o PieceScoresInf)),
      \* the byte escapes alone, no scores
      (Tokens_key :> GgufArray(ByteEscapes)),
      \* the ASCII bytes as themselves, the others as escapes, then merges
      (Tokens_key :> GgufArray(AsciiBytes \o HighEscapes
                                \o SubSeq(Pieces, 3, 5))) @@
      (Scores_key :> GgufArray(Zeros(256) \o SubSeq(PieceScores, 3, 5))) @@
      ("tokenizer.ggml.padding_token_id" :> GgufU32(0)),
      \* a repeated string
      (Tokens_key :> GgufArray(<< GgufString(<<65>>), GgufString(<<66>>),
                                  GgufString(<<65>>) >>)),
      \* an entry that is not a string
      (Tokens_key :> GgufArray(<< GgufString(<<65>>), GgufU32(7),
                                  GgufString(<<66>>) >>)),
      \* no string at all, and no token array at all
      (Tokens_key :> GgufArray(<< GgufU32(7) >>)),
      (Scores_key :> GgufArray(<< GgufF32(0) >>)) }

\* the characters of the texts: "A", "B" and the two-byte U+00E9
Chars == { <<65>>, <<66>>, <<195, 169>> }

RECURSIVE Texts(_)
Texts(n) ==
    IF n = 0 THEN { <<>> }
    ELSE LET T == Texts(n - 1) IN T \cup { t \o c : t \in T, c \in Chars }

(* SpecTokenizer: build a tokenizer, encode a text, decode the ids *)

build_from_gguf ==
    /\ tokenizer = <<>>
    /\ tokenizer' = from_gguf_result(metadata)
    /\ UNCHANGED <<metadata, text, tokens, decoded>>
    /\ UNCHANGED <<kvVars, paramVars, weights, histVars, samplerVars, loadVars,
                   quantVars, auxVars>>

build_fallback ==
    /\ tokenizer = <<>>
    /\ tokenizer' = fallback_result
    /\ UNCHANGED <<metadata, text, tokens, decoded>>
    /\ UNCHANGED <<kvVars, paramVars, weights, histVars, samplerVars, loadVars,
                   quantVars, auxVars>>

call_encode ==
    /\ tokenizer # <<>> /\ tokenizer.status = "ok"
    /\ decoded = <<>>
    /\ \E s \in Texts(MaxText) :
        /\ text' = s
        /\ tokens' = encode(tokenizer, s)
    /\ UNCHANGED <<metadata, tokenizer, decoded>>
    /\ UNCHANGED <<kvVars, paramVars, weights, histVars, samplerVars, loadVars,
                   quantVars, auxVars>>

call_decode ==
    /\ tokenizer # <<>> /\ tokenizer.status = "ok"
    /\ decoded = <<>>
    /\ decoded' = <<decode(tokenizer, tokens)>>
    /\ UNCHANGED <<metadata, tokenizer, text, tokens>>
    /\ UNCHANGED <<kvVars, paramVars, weights, histVars, samplerVars, loadVars,
                   quantVars, auxVars>>

InitTokenizer ==
    /\ KvIdle
    /\ AuxIdle
    /\ SamplerIdle
    /\ LoadIdle
    /\ QuantIdle
    /\ metadata \in Metadatas
    /\ tokenizer = <<>>
    /\ text = <<>>
    /\ tokens = <<>>
    /\ decoded = <<>>

NextTokenizer ==
    build_from_gguf \/ build_fallback \/ call_encode \/ call_decode

SpecTokenizer == InitTokenizer /\ [][NextTokenizer]_vars

----------------------------------------------------------------------------
(* Loading: MmapModel (mmap.rs), ModelParams (model.rs), TransformerWeights *)
(* (forward.rs) and validate_model_quants (quant.rs)                        *)

\* usize and u64 arithmetic is arithmetic modulo 2^UsizeBits
UsizeBits == 16
Modulus == 2 ^ UsizeBits

\* GgmlType: the types the kernels decode, and two they do not
SupportedTypes ==
    {"F32", "F16", "Q4_0", "Q8_0", "Q2K", "Q3K", "Q4K", "Q5K", "Q6K"}
GgmlTypes == SupportedTypes \cup {"IQ2XXS", "IQ4NL"}

\* is_type_supported
is_type_supported(ggml_type) ==
    ggml_type \in {"F32", "F16", "Q4_0", "Q8_0", "Q2K", "Q3K", "Q4K", "Q5K",
                   "Q6K"}

\* validate_model_quants: the (name, type) of every unsupported tensor
validate_model_quants(tensors) ==
    LET bad == SelectSeq(tensors, LAMBDA t : ~ is_type_supported(t.ggml_type))
    IN  [i \in 1..Len(bad) |-> <<bad[i].name, bad[i].ggml_type>>]

\* TensorInfo::size_bytes: the byte size the directory entry declares
size_bytes(tensor) == tensor.size

\* GgufFile::get_u32 / get_f32 / get_string: the value under the key when it
\* has that type
get_u32(gguf, key) ==
    IF key \in DOMAIN gguf.metadata THEN as_u32(gguf.metadata[key]) ELSE <<>>
get_f32(gguf, key) ==
    IF key \in DOMAIN gguf.metadata THEN as_f32(gguf.metadata[key]) ELSE <<>>
get_string(gguf, key) ==
    IF key \in DOMAIN gguf.metadata THEN as_str(gguf.metadata[key]) ELSE <<>>

\* GgufFile::architecture
architecture(gguf) == get_string(gguf, <<"general", "architecture">>)

\* Option::unwrap_or
unwrap_or(opt, default) == IF opt = <<>> THEN default ELSE opt[1]

\* GgufFile::parse: the header of a well-formed file parses to its metadata,
\* tensor directory and data offset
parse(f) ==
    IF f.header = "valid"
    THEN [status |-> "ok",
          gguf |-> [metadata |-> f.metadata, tensors |-> f.tensors,
                    data_offset |-> f.data_offset]]
    ELSE [status |-> "err", msg |-> "BadContainer"]

\* MmapModel::load
load_result(f) ==
    IF ~ f.exists THEN [status |-> "err", msg |-> "Model file not found"]
    ELSE IF parse(f).status # "ok" THEN parse(f)
    ELSE [status |-> "ok", gguf |-> parse(f).gguf, mmap_len |-> f.len]

\* MmapModel::tensor_data.  A slice of the mapping is its byte range.  An
\* overflowing addition panics in a build with overflow checks and wraps in
\* one without.
tensor_data(m, tensor_index, checked) ==
    IF tensor_index >= Len(m.gguf.tensors)
    THEN [status |-> "err", msg |-> "Tensor index out of range"]
    ELSE
    LET tensor == m.gguf.tensors[tensor_index + 1]
        sum == m.gguf.data_offset + tensor.offset
        start == sum % Modulus
        size == size_bytes(tensor)
        end == (start + size) % Modulus
    IN
    IF checked /\ (sum >= Modulus \/ start + size >= Modulus)
    THEN [status |-> "panic", msg |-> "attempt to add with overflow"]
    ELSE IF end > m.mmap_len
    THEN [status |-> "err", msg |-> "data out of bounds"]
    ELSE IF start > end
    THEN [status |-> "panic", msg |-> "slice index starts after its end"]
    ELSE [status |-> "ok", start |-> start, end |-> end]

\* format!("{prefix}{name}") with prefix = format!("{arch}.")
Key(arch, name) == <<arch, name>>

\* ModelParams::from_gguf
ModelParams_from_gguf(gguf) ==
    LET arch == unwrap_or(architecture(gguf), "llama")
        dim == unwrap_or(get_u32(gguf, Key(arch, "embedding_length")), 2048)
        nh == unwrap_or(get_u32(gguf, Key(arch, "attention.head_count")), 32)
        nkv == unwrap_or(get_u32(gguf, Key(arch, "attention.head_count_kv")),
                         nh)
        toks == get_array(gguf.metadata, <<"tokenizer", "ggml.tokens">>)
        vocab == IF get_u32(gguf, Key(arch, "vocab_size")) # <<>>
                 THEN get_u32(gguf, Key(arch, "vocab_size"))[1]
                 ELSE IF toks # <<>> THEN Len(toks[1])
                 ELSE 32000
    IN
    IF nh = 0
    THEN [status |-> "panic", msg |-> "attempt to divide by zero"]
    ELSE [status |-> "ok",
          vocab_size |-> vocab,
          dim |-> dim,
          hidden_dim |->
            unwrap_or(get_u32(gguf, Key(arch, "feed_forward_length")), 5632),
          n_layers |-> unwrap_or(get_u32(gguf, Key(arch, "block_count")), 22),
          n_heads |-> nh,
          n_kv_heads |-> nkv,
          head_dim |-> dim \div nh,
          max_seq_len |->
            unwrap_or(get_u32(gguf, Key(arch, "context_length")), 2048),
          rope_theta |->
            unwrap_or(get_f32(gguf, Key(arch, "rope.freq_base")), "10000.0"),
          rms_norm_eps |->
            unwrap_or(get_f32(gguf,
                              Key(arch, "attention.layer_norm_rms_epsilon")),
                      "1e-5")]

\* tensor names: format!("blk.{l}.{w}.weight") and "{w}.weight"
LayerTensor(l, w) == <<"blk", l, w>>
GlobalTensor(w) == <<w>>

\* the closure `find`: position of the first tensor of that name
find(m, name) ==
    IF \E i \in 1..Len(m.gguf.tensors) : m.gguf.tensors[i].name = name
    THEN <<(CHOOSE i \in 1..Len(m.gguf.tensors) :
                /\ m.gguf.tensors[i].name = name
                /\ \A j \in 1..(i - 1) : m.gguf.tensors[j].name # name) - 1>>
    ELSE <<>>

\* TransformerWeights::from_gguf
TransformerWeights_from_gguf(m, pr) ==
    [token_embd |-> find(m, GlobalTensor("token_embd")),
     output_norm |-> find(m, GlobalTensor("output_norm")),
     output |-> find(m, GlobalTensor("output")),
     layers |-> [l \in 0..(pr.n_layers - 1) |->
                    [w \in LayerWeightNames |-> find(m, LayerTensor(l, w))]]]

(* the files loaded *)

DataOffset == 32
TensorBytes == 4

MetadataKeys ==
    {"embedding_length", "feed_forward_length", "block_count",
     "attention.head_count", "attention.head_count_kv", "context_length",
     "vocab_size", "rope.freq_base", "attention.layer_norm_rms_epsilon"}

\* complete, consistent metadata of a model of nl layers
BaseMetadata(nl) ==
    (<<"general", "architecture">> :> GgufString("llama")) @@
    (Key("llama", "embedding_length") :> GgufU32(4)) @@
    (Key("llama", "feed_forward_length") :> GgufU32(8)) @@
    (Key("llama", "block_count") :> GgufU32(nl)) @@
    (Key("llama", "attention.head_count") :> GgufU32(2)) @@
    (Key("llama", "attention.head_count_kv") :> GgufU32(1)) @@
    (Key("llama", "context_length") :> GgufU32(MaxSeq)) @@
    (Key("llama", "vocab_size") :> GgufU32(MaxVocab)) @@
    (Key("llama", "rope.freq_base") :> GgufF32("500000.0")) @@
    (Key("llama", "attention.layer_norm_rms_epsilon") :> GgufF32("1e-6"))

Without(md, key) == [k \in DOMAIN md \ {key} |-> md[k]]
With(md, key, value) == (key :> value) @@ md

Metadatas_of_files(nl) ==
    LET base == BaseMetadata(nl) IN
    {base, Without(base, <<"general", "architecture">>)}
    \cup {Without(base, Key("llama", k)) : k \in MetadataKeys}
    \cup {With(Without(base, Key("llama", "vocab_size")),
               <<"tokenizer", "ggml.tokens">>,
               GgufArray(<< GgufString(<<65>>), GgufU32(7) >>))}
    \cup {With(base, Key("llama", "attention.head_count"), GgufU32(n)) :
            n \in {0, 3}}
    \cup {With(base, Key("llama", "attention.head_count_kv"), GgufU32(n)) :
            n \in {0, 2, 3}}
    \cup {With(base, Key("llama", "vocab_size"), GgufU32(0)),
          With(base, Key("llama", "context_length"), GgufU32(0)),
          With(base, Key("llama", "embedding_length"), GgufString(<<52>>))}

TensorNames(nl) ==
    << GlobalTensor("token_embd"), GlobalTensor("output_norm"),
       GlobalTensor("output") >>
    \o [i \in 1..(nl * 9) |->
          LayerTensor((i - 1) \div 9,
                      << "attn_norm", "attn_q", "attn_k", "attn_v",
                         "attn_output", "ffn_norm", "ffn_gate", "ffn_up",
                         "ffn_down" >>[((i - 1) % 9) + 1])]

\* the directory of a complete file: F32 tensors laid out back to back
BaseTensors(nl) ==
    [i \in 1..Len(TensorNames(nl)) |->
        [name |-> TensorNames(nl)[i], ggml_type |-> "F32",
         offset |-> (i - 1) * TensorBytes, size |-> TensorBytes]]

BaseLen(nl) == DataOffset + Len(TensorNames(nl)) * TensorBytes

Index(nl, name) == CHOOSE i \in 1..Len(TensorNames(nl)) :
                        TensorNames(nl)[i] = name

Remove(ts, i) == [j \in 1..(Len(ts) - 1) |-> IF j < i THEN ts[j] ELSE ts[j + 1]]

\* directories with a tensor absent, retagged, or with a wrong extent
Directories(nl) ==
    LET base == BaseTensors(nl)
        last_layer(w) == Index(nl, LayerTensor(nl - 1, w))
        first_layer(w) == Index(nl, LayerTensor(0, w))
    IN
    {base}
    \cup {Remove(base, first_layer(w)) : w \in {"attn_q", "attn_norm"}}
    \cup {Remove(base, last_layer(w)) : w \in {"ffn_down", "ffn_norm"}}
    \cup {Remove(base, 1)}
    \cup {[base EXCEPT ![first_layer("attn_q")].ggml_type = ty] :
            ty \in {"IQ4NL", "Q8_0"}}
    \cup {[base EXCEPT ![1].offset = off] :
            off \in {BaseLen(nl), Modulus - DataOffset,
                     Modulus - DataOffset - 1}}
    \cup {[base EXCEPT ![1].size = sz] :
            sz \in {0, BaseLen(nl), Modulus - DataOffset,
                    Modulus - DataOffset - 1}}
    \cup {[base EXCEPT ![Len(base)].size = TensorBytes + 1]}
    \cup {[base EXCEPT ![2].offset = Modulus - DataOffset + TensorBytes,
                       ![2].size = Modulus - TensorBytes]}

GoodFile(nl) ==
    [exists |-> TRUE, header |-> "valid", metadata |-> BaseMetadata(nl),
     tensors |-> BaseTensors(nl), data_offset |-> DataOffset,
     len |-> BaseLen(nl)]

Files ==
    UNION {
        {[GoodFile(nl) EXCEPT !.metadata = md] : md \in Metadatas_of_files(nl)}
        \cup {[GoodFile(nl) EXCEPT !.tensors = ts] : ts \in Directories(nl)}
        \cup {[GoodFile(nl) EXCEPT !.exists = FALSE],
              [GoodFile(nl) EXCEPT !.header = "bad magic"]}
        : nl \in 1..MaxLayers }

(* SpecLoad: load a file, build params and weight index, read tensors *)

load ==
    /\ model = <<>>
    /\ model' = load_result(file)
    /\ UNCHANGED <<file, overflow_checks, params, transformer_weights, slice,
                   unsupported>>
    /\ UNCHANGED <<kvVars, paramVars, weights, histVars, samplerVars, tokVars,
                   quantVars, auxVars>>

params_from_gguf ==
    /\ model # <<>> /\ model.status = "ok"
    /\ params = <<>>
    /\ params' = ModelParams_from_gguf(model.gguf)
    /\ UNCHANGED <<file, overflow_checks, model, transformer_weights, slice,
                   unsupported>>
    /\ UNCHANGED <<kvVars, paramVars, weights, histVars, samplerVars, tokVars,
                   quantVars, auxVars>>

weights_from_gguf ==
    /\ params # <<>> /\ params.status = "ok"
    /\ transformer_weights = <<>>
    /\ transformer_weights' = TransformerWeights_from_gguf(model, params)
    /\ UNCHANGED <<file, overflow_checks, model, params, slice, unsupported>>
    /\ UNCHANGED <<kvVars, paramVars, weights, histVars, samplerVars, tokVars,
                   quantVars, auxVars>>

call_tensor_data ==
    /\ transformer_weights # <<>>
    /\ (IF slice = <<>> THEN TRUE ELSE slice.result.status # "panic")
    /\ \E tensor_index \in 0..(Len(model.gguf.tensors) + 1) :
        slice' = [tensor_index |-> tensor_index,
                  result |-> tensor_data(model, tensor_index, overflow_checks)]
    /\ UNCHANGED <<file, overflow_checks, model, params, transformer_weights,
                   unsupported>>
    /\ UNCHANGED <<kvVars, paramVars, weights, histVars, samplerVars, tokVars,
                   quantVars, auxVars>>

call_validate_model_quants ==
    /\ transformer_weights # <<>>
    /\ unsupported = <<>>
    /\ unsupported' = <<validate_model_quants(model.gguf.tensors)>>
    /\ UNCHANGED <<file, overflow_checks, model, params, transformer_weights,
                   slice>>
    /\ UNCHANGED <<kvVars, paramVars, weights, histVars, samplerVars, tokVars,
                   quantVars, auxVars>>

InitLoad ==
    /\ KvIdle
    /\ AuxIdle
    /\ SamplerIdle
    /\ TokIdle
    /\ QuantIdle
    /\ file \in Files
    /\ overflow_checks \in BOOLEAN
    /\ model = <<>>
    /\ params = <<>>
    /\ transformer_weights = <<>>
    /\ slice = <<>>
    /\ unsupported = <<>>

NextLoad ==
    \/ load
    \/ params_from_gguf
    \/ weights_from_gguf
    \/ call_tensor_data
    \/ call_validate_model_quants

SpecLoad == InitLoad /\ [][NextLoad]_vars

----------------------------------------------------------------------------
(* Dequantization: dequantize_row and dispatch_blocks (quant.rs), and the   *)
(* embedding lookup of forward (forward.rs).  A byte slice is the range     *)
(* [start, end) of the mapping it borrows; a decoded f32 is named after the *)
(* position of the bytes it was decoded from.                               *)

MaxBlocks == 2

\* GgmlType::block_size: elements per block
block_size(ggml_type) ==
    CASE ggml_type \in {"F32", "F16"} -> 1
      [] ggml_type \in {"Q4_0", "Q8_0", "IQ4NL"} -> 32
      [] OTHER -> 256

\* GgmlType::type_size: bytes per block
type_size(ggml_type) ==
    CASE ggml_type = "F32" -> 4
      [] ggml_type = "F16" -> 2
      [] ggml_type = "Q4_0" -> 18
      [] ggml_type = "Q8_0" -> 34
      [] ggml_type = "Q2K" -> 84
      [] ggml_type = "Q3K" -> 110
      [] ggml_type = "Q4K" -> 144
      [] ggml_type = "Q5K" -> 176
      [] ggml_type = "Q6K" -> 210
      [] ggml_type = "IQ4NL" -> 18
      [] ggml_type = "IQ2XXS" -> 66

\* data.len() and &data[k..]
SliceLen(data) == data.end - data.start
SliceFrom(data, k) == [start |-> data.start + k, end |-> data.end]

\* the f32 decoded from the bytes at position o of the mapping
Decoded(o) == 1000 + o

\* the F32 and F16 arms of dequantize_row: element i is decoded when its
\* bytes lie inside data and is skipped otherwise; output[i] is indexed only
\* for the elements decoded
elementwise(data, output, n_elements, width) ==
    LET have == {i \in 0..(n_elements - 1) : i * width + width <= SliceLen(data)}
    IN  IF \E i \in have : i >= Len(output)
        THEN [status |-> "panic", output |-> output]
        ELSE [status |-> "ok",
              output |-> [i \in 1..Len(output) |->
                            IF (i - 1) \in have
                            THEN Decoded(data.start + (i - 1) * width)
                            ELSE output[i]]]

\* dispatch_blocks: n_elements / block_size whole blocks; slicing data or
\* output past its end, and a kernel reading a block shorter than type_size
\* or writing an output shorter than block_size, panic
dispatch_blocks(data, output, n_elements, bs, ts) ==
    LET n_blocks == n_elements \div bs
        fits(b) == /\ b * ts + ts <= SliceLen(data)
                   /\ b * bs + bs <= Len(output)
    IN  IF \E b \in 0..(n_blocks - 1) : ~ fits(b)
        THEN [status |-> "panic", output |-> output]
        ELSE [status |-> "ok",
              output |-> [i \in 1..Len(output) |->
                            IF (i - 1) < n_blocks * bs
                            THEN Decoded(data.start + ((i - 1) \div bs) * ts)
                            ELSE output[i]]]

\* dequantize_row with an arm that fills the output with 0.0 for the types
\* it does not decode
dequantize_row_zero_fill(data, output, n_elements, ggml_type) ==
    IF ggml_type \in {"F32", "F16"}
    THEN elementwise(data, output, n_elements, type_size(ggml_type))
    ELSE IF is_type_supported(ggml_type)
    THEN dispatch_blocks(data, output, n_elements, block_size(ggml_type),
                         type_size(ggml_type))
    ELSE [status |-> "ok", output |-> [i \in 1..Len(output) |-> 0]]

\* dequantize_row
dequantize_row(data, output, n_elements, ggml_type) ==
    CASE ggml_type = "F32" -> elementwise(data, output, n_elements, 4)
      [] ggml_type = "F16" -> elementwise(data, output, n_elements, 2)
      [] ggml_type = "Q4_0" -> dispatch_blocks(data, output, n_elements, 32, 18)
      [] ggml_type = "Q8_0" -> dispatch_blocks(data, output, n_elements, 32, 34)
      [] ggml_type = "Q2K" -> dispatch_blocks(data, output, n_elements, 256, 84)
      [] ggml_type = "Q3K" -> dispatch_blocks(data, output, n_elements, 256, 110)
      [] ggml_type = "Q4K" -> dispatch_blocks(data, output, n_elements, 256, 144)
      [] ggml_type = "Q5K" -> dispatch_blocks(data, output, n_elements, 256, 176)
      [] ggml_type = "Q6K" -> dispatch_blocks(data, output, n_elements, 256, 210)
      [] OTHER -> [status |-> "err", output |-> output]

\* step 1 of forward: the embedding row of the token, from the bytes of
\* token_embd.weight that tensor_data returned
token_embedding(embd_data, ggml_type, token, dim) ==
    LET x == [i \in 1..dim |-> 0]
        offset == token * dim
        row_bytes == (dim * type_size(ggml_type)) \div block_size(ggml_type)
        byte_offset == offset * 4
        row_offset == token * row_bytes
    IN
    IF ggml_type = "F32"
    THEN [status |-> "ok",
          output |-> [i \in 1..dim |->
                        IF byte_offset + (i - 1) * 4 + 4 <= SliceLen(embd_data)
                        THEN Decoded(embd_data.start + byte_offset
                                     + (i - 1) * 4)
                        ELSE x[i]]]
    ELSE IF row_offset + row_bytes <= SliceLen(embd_data)
    THEN dequantize_row(SliceFrom(embd_data, row_offset), x, dim, ggml_type)
    ELSE [status |-> "ok", output |-> x]

(* SpecQuant: one call of dequantize_row, or one embedding lookup *)

\* element counts: whole blocks, and whole blocks and one element more
ElementCounts(ggml_type) ==
    {k * block_size(ggml_type) + r : k \in 0..MaxBlocks, r \in {0, 1}}

\* the bytes that n_elements of the type occupy
row_size(ggml_type, n_elements) ==
    (n_elements \div block_size(ggml_type)) * type_size(ggml_type)

\* slices of the mapping that hold all of the bytes, one less, or none
DataSlices(need) ==
    {[start |-> DataOffset, end |-> DataOffset + len] :
        len \in {need, need + 1, need - 1, 0} \cap Nat}

\* what the output buffer holds before the call
OldOutputs(n) == {[i \in 1..n |-> v] : v \in {0, 999}}

call_dequantize_row ==
    /\ quant_in = <<>>
    /\ \E ggml_type \in GgmlTypes :
       \E n_elements \in ElementCounts(ggml_type) :
       \E data \in DataSlices(row_size(ggml_type, n_elements)) :
       \E output \in OldOutputs(n_elements) :
        /\ quant_in' = [fn |-> "dequantize_row", data |-> data,
                        output |-> output, n_elements |-> n_elements,
                        ggml_type |-> ggml_type]
        /\ quant_out' = dequantize_row(data, output, n_elements, ggml_type)
    /\ UNCHANGED <<kvVars, paramVars, weights, histVars, samplerVars, tokVars,
                   loadVars, auxVars>>

\* the table holds MaxVocab rows; the token may be one past the last row
call_token_embedding ==
    /\ quant_in = <<>>
    /\ \E ggml_type \in GgmlTypes :
       \E dim \in ElementCounts(ggml_type) \ {0} :
       \E token \in 0..MaxVocab :
       \E data \in DataSlices(MaxVocab * row_size(ggml_type, dim)) :
        /\ quant_in' = [fn |-> "forward", data |-> data,
                        output |-> [i \in 1..dim |-> 0], n_elements |-> dim,
                        ggml_type |-> ggml_type, token |-> token]
        /\ quant_out' = token_embedding(data, ggml_type, token, dim)
    /\ UNCHANGED <<kvVars, paramVars, weights, histVars, samplerVars, tokVars,
                   loadVars, auxVars>>

InitQuant ==
    /\ KvIdle
    /\ AuxIdle
    /\ SamplerIdle
    /\ TokIdle
    /\ LoadIdle
    /\ QuantIdle

NextQuant == call_dequantize_row \/ call_token_embedding

SpecQuant == InitQuant /\ [][NextQuant]_vars

----------------------------------------------------------------------------
(* dequantize_q4_k (quant.rs): bytes are 0..255, u8 arithmetic is modulo 256  *)

MaxPatterns == 2

RECURSIVE BitAnd(_, _)
BitAnd(a, b) ==
    IF a = 0 \/ b = 0 THEN 0
    ELSE (a % 2) * (b % 2) + 2 * BitAnd(a \div 2, b \div 2)

RECURSIVE BitOr(_, _)
BitOr(a, b) ==
    IF a = 0 THEN b
    ELSE IF b = 0 THEN a
    ELSE (IF a % 2 = 1 \/ b % 2 = 1 THEN 1 ELSE 0)
            + 2 * BitOr(a \div 2, b \div 2)

\* x << n and x >> n on u8
Shl(x, n) == (x * (2 ^ n)) % 256
Shr(x, n) == x \div (2 ^ n)

\* read_f16(data, offset): half::f16::from_le_bytes([lo, hi]).to_f32(), for the
\* halves with a zero mantissa and an exponent of 0 or 15..18: 0, +-1, +-2,
\* +-4, +-8.  Bytes are counted from 0.
read_f16(data, offset) ==
    LET bits == data[offset + 2] * 256 + data[offset + 1]
        sign == bits \div 32768
        exponent == (bits \div 1024) % 32
        magnitude == IF exponent = 0 THEN 0 ELSE 2 ^ (exponent - 15)
    IN  IF sign = 1 THEN 0 - magnitude ELSE magnitude

\* scales_raw = &block[4..16] and qs = &block[16..144], indexed from 0
scales_raw(block) == [i \in 0..11 |-> block[4 + i + 1]]
qs(block) == [i \in 0..127 |-> block[16 + i + 1]]

\* the first decode, into sc and mn
q4k_sc(raw) == [s \in 0..7 |-> BitAnd(raw[s], 63)]
q4k_mn(raw) ==
    [s \in 0..7 |-> BitOr(Shr(raw[s], 6), BitAnd(Shr(raw[s + 4], 4), 12))]

\* a decode that hands on the first one
q4k_scales_first(raw) == q4k_sc(raw)
\* the second decode, into scales and mins
q4k_scales(raw) ==
    [s \in 0..7 |->
        IF s < 4 THEN BitAnd(raw[2 * s], 63)
        ELSE BitOr(Shr(raw[2 * (s - 4)], 6),
                   Shl(BitAnd(raw[8 + (s - 4)], 15), 2))]
q4k_mins(raw) ==
    [s \in 0..7 |->
        IF s < 4 THEN BitAnd(raw[2 * s + 1], 63)
        ELSE BitOr(Shr(raw[2 * (s - 4) + 1], 6),
                   Shl(Shr(raw[8 + (s - 4)], 4), 2))]

\* dequantize_q4_k(block, output): output[idx] = scale * q - min
dequantize_q4_k(block, output) ==
    LET d == read_f16(block, 0)
        dmin == read_f16(block, 2)
        raw == scales_raw(block)
        q(idx) ==
            LET sub == idx \div 32
                j == idx % 32
                byte == qs(block)[sub * 16 + j \div 2]
            IN  IF j % 2 = 0 THEN BitAnd(byte, 15)
                ELSE BitAnd(Shr(byte, 4), 15)
    IN  [i \in 1..Len(output) |->
            IF i <= 256
            THEN (d * q4k_scales(raw)[(i - 1) \div 32]) * q(i - 1)
                    - dmin * q4k_mins(raw)[(i - 1) \div 32]
            ELSE output[i]]

\* the 12-byte scale fields: one byte value throughout, one byte set in a
\* field of zeros, and mixed fields
ScaleBytes == {0, 63, 64, 165, 255}
ScaleFields ==
    {[i \in 0..11 |-> b] : b \in ScaleBytes}
    \cup {[i \in 0..11 |-> IF i = p THEN b ELSE 0] :
            p \in 0..11, b \in ScaleBytes \ {0}}
    \cup {[i \in 0..11 |-> (37 * i + 101 * k) % 256] : k \in 1..MaxPatterns}

\* the halves 0.0, 1.0 and 2.0 as little-endian byte pairs
HalfBytes == {<<0, 0>>, <<0, 60>>, <<0, 64>>}

Q4KBlocks ==
    {[i \in 1..144 |->
        IF i <= 2 THEN dh[i]
        ELSE IF i <= 4 THEN mh[i - 2]
        ELSE IF i <= 16 THEN raw[i - 5]
        ELSE (29 * (i - 17) * k + k) % 256] :
      dh \in HalfBytes \ {<<0, 0>>}, mh \in HalfBytes, raw \in ScaleFields,
      k \in 1..MaxPatterns}

call_dequantize_q4_k ==
    /\ quant_in = <<>>
    /\ \E block \in Q4KBlocks :
        /\ quant_in' = [fn |-> "dequantize_q4_k", data |-> block,
                        output |-> [i \in 1..256 |-> 999]]
        /\ quant_out' = [status |-> "ok",
                         output |-> dequantize_q4_k(block,
                                        [i \in 1..256 |-> 999])]
    /\ UNCHANGED <<kvVars, paramVars, weights, histVars, samplerVars, tokVars,
                   loadVars, auxVars>>

NextQ4K == call_dequantize_q4_k

SpecQ4K == InitQuant /\ [][NextQ4K]_vars

----------------------------------------------------------------------------
(* Tensor primitives (tensor.rs) and the parallel matmul (thread_pool.rs).   *)
(* f32 values are small integers, on which the products and sums are exact   *)

MaxRows == 3
MaxCols == 2
MaxThreads == 2

\* dot_product(a, b): a.iter().zip(b.iter()).map(|(&x, &y)| x * y).sum()
RECURSIVE dot_sum(_, _, _)
dot_sum(a, b, n) == IF n = 0 THEN 0 ELSE dot_sum(a, b, n - 1) + a[n] * b[n]
dot_product(a, b) == dot_sum(a, b, Min(Len(a), Len(b)))

\* &mat[i * cols..(i + 1) * cols], rows counted from 0
row_of(mat, i, cols) == SubSeq(mat, i * cols + 1, (i + 1) * cols)

\* matmul(output, mat, vec, rows, cols): the sequential loop over 0..rows
matmul(output, mat, vec, rows, cols) ==
    [i \in 1..Len(output) |->
        IF i <= rows THEN dot_product(row_of(mat, i - 1, cols), vec)
        ELSE output[i]]

\* the matrices, vectors and output buffers of the calls
Matrices(rows, cols) ==
    {[i \in 1..(rows * cols) |-> ((i * k) % 5) - 2] : k \in 1..3}
Vectors(cols) == {[c \in 1..cols |-> 1], [c \in 1..cols |-> c - 2]}
StaleOutput(rows) == [i \in 1..rows |-> 99]

Threads == 1..MaxThreads

\* matmul_parallel(output, mat, vec_in, rows, cols) is entered: the three
\* debug_assert_eq hold, and no item of output.par_iter_mut().enumerate() has
\* been handed out yet.  writes counts the stores into each output element.
call_matmul_parallel ==
    /\ tensor_op = <<>>
    /\ \E rows \in 1..MaxRows, cols \in 1..MaxCols :
        \E mat \in Matrices(rows, cols), vec_in \in Vectors(cols) :
            tensor_op' = [fn |-> "matmul_parallel", mat |-> mat,
                          vec_in |-> vec_in, rows |-> rows, cols |-> cols,
                          output |-> StaleOutput(rows),
                          taken |-> {},
                          item |-> [w \in Threads |-> -1],
                          writes |-> [i \in 0..(rows - 1) |-> 0],
                          writer |-> [i \in 0..(rows - 1) |-> 0],
                          returned |-> FALSE]
    /\ UNCHANGED <<kvVars, paramVars, weights, histVars, samplerVars, tokVars,
                   loadVars, quantVars, platform>>

InParallelCall ==
    IF tensor_op = <<>> THEN FALSE
    ELSE tensor_op.fn = "matmul_parallel" /\ ~ tensor_op.returned

\* a worker that takes whatever item, handed out before or not
worker_take_again(w) ==
    /\ InParallelCall
    /\ tensor_op.item[w] = -1
    /\ \E i \in 0..(tensor_op.rows - 1) :
        tensor_op' = [tensor_op EXCEPT !.taken = @ \cup {i}, !.item[w] = i]
    /\ UNCHANGED <<kvVars, paramVars, weights, histVars, samplerVars, tokVars,
                   loadVars, quantVars, platform>>

\* a worker thread receives the next item (i, out) of the parallel iterator:
\* par_iter_mut splits the slice into disjoint parts, so an item is handed
\* out once, to whichever thread is free
worker_take(w) ==
    /\ InParallelCall
    /\ tensor_op.item[w] = -1
    /\ \E i \in (0..(tensor_op.rows - 1)) \ tensor_op.taken :
        tensor_op' = [tensor_op EXCEPT !.taken = @ \cup {i}, !.item[w] = i]
    /\ UNCHANGED <<kvVars, paramVars, weights, histVars, samplerVars, tokVars,
                   loadVars, quantVars, platform>>

\* the closure body: *out = dot_product(&mat[i * cols..(i + 1) * cols], vec_in)
worker_write(w) ==
    /\ InParallelCall
    /\ tensor_op.item[w] # -1
    /\ LET i == tensor_op.item[w] IN
        tensor_op' = [tensor_op EXCEPT
            !.output[i + 1] =
                dot_product(row_of(tensor_op.mat, i, tensor_op.cols),
                            tensor_op.vec_in),
            !.writes[i] = @ + 1,
            !.writer[i] = w,
            !.item[w] = -1]
    /\ UNCHANGED <<kvVars, paramVars, weights, histVars, samplerVars, tokVars,
                   loadVars, quantVars, platform>>

\* for_each returns once every item has been handed out and processed
for_each_return ==
    /\ InParallelCall
    /\ tensor_op.taken = 0..(tensor_op.rows - 1)
    /\ \A w \in Threads : tensor_op.item[w] = -1
    /\ tensor_op' = [tensor_op EXCEPT !.returned = TRUE]
    /\ UNCHANGED <<kvVars, paramVars, weights, histVars, samplerVars, tokVars,
                   loadVars, quantVars, platform>>

InitMatmul ==
    /\ KvIdle
    /\ SamplerIdle
    /\ TokIdle
    /\ LoadIdle
    /\ QuantIdle
    /\ AuxIdle

NextMatmul ==
    \/ call_matmul_parallel
    \/ \E w \in Threads : worker_take(w)
    \/ \E w \in Threads : worker_write(w)
    \/ for_each_return

SpecMatmul == InitMatmul /\ [][NextMatmul]_vars

\* elementwise_add / elementwise_mul

MaxElems == 2

\* the loop `for (x, &y) in a.iter_mut().zip(b.iter())`: zip stops at the
\* shorter operand, the rest of a is left as it was
zip_apply(a, b, op) ==
    [i \in 1..Len(a) |->
        IF i <= Len(b)
        THEN IF op = "add" THEN a[i] + b[i] ELSE a[i] * b[i]
        ELSE a[i]]

\* debug_assert_eq!(a.len(), b.len()) panics in a build with debug assertions
\* and is compiled out otherwise
elementwise_apply(a, b, op, debug_assertions) ==
    IF debug_assertions /\ Len(a) # Len(b)
    THEN [status |-> "panic", a |-> a]
    ELSE [status |-> "ok", a |-> zip_apply(a, b, op)]

RECURSIVE Operands(_)
Operands(n) ==
    IF n = 0 THEN { <<>> }
    ELSE LET V == Operands(n - 1) IN V \cup { Append(v, x) : v \in V, x \in {2, 3} }

\* the call and its outcome
ElementwiseCall(op, a, b, debug_assertions) ==
    [fn |-> op, a |-> a, b |-> b, debug_assertions |-> debug_assertions,
     result |-> elementwise_apply(a, b, op, debug_assertions)]

call_elementwise_add ==
    /\ tensor_op = <<>>
    /\ \E a \in Operands(MaxElems), b \in Operands(MaxElems),
          debug_assertions \in BOOLEAN :
        tensor_op' = ElementwiseCall("add", a, b, debug_assertions)
    /\ UNCHANGED <<kvVars, paramVars, weights, histVars, samplerVars, tokVars,
                   loadVars, quantVars, platform>>

call_elementwise_mul ==
    /\ tensor_op = <<>>
    /\ \E a \in Operands(MaxElems), b \in Operands(MaxElems),
          debug_assertions \in BOOLEAN :
        tensor_op' = ElementwiseCall("mul", a, b, debug_assertions)
    /\ UNCHANGED <<kvVars, paramVars, weights, histVars, samplerVars, tokVars,
                   loadVars, quantVars, platform>>

NextTensor == call_elementwise_add \/ call_elementwise_mul

SpecTensor == InitMatmul /\ [][NextTensor]_vars

----------------------------------------------------------------------------
(* The self-service handlers of the platform (self_serve.rs).  Strings are   *)
(* sequences of code points.  The database behind AdminState.db (db.rs) is   *)
(* seen through the calls the handlers make on it.                           *)

MaxReqs == 2

\* char::to_lowercase on the characters of the names: ASCII letters, U+00C9
to_lowercase(s) ==
    [i \in 1..Len(s) |->
        IF s[i] \in 65..90 THEN s[i] + 32
        ELSE IF s[i] = 201 THEN 233
        ELSE s[i]]

is_ascii_alphanumeric(c) == c \in 48..57 \/ c \in 65..90 \/ c \in 97..122

\* split_whitespace().collect::<Vec<&str>>().join("-"); word is the word being
\* read, out the words joined so far
RECURSIVE split_join(_, _, _)
split_join(s, word, out) ==
    LET flush == IF word = <<>> THEN out
                 ELSE IF out = <<>> THEN word
                 ELSE out \o <<45>> \o word
    IN  IF s = <<>> THEN flush
        ELSE IF Head(s) = 32 THEN split_join(Tail(s), <<>>, flush)
        ELSE split_join(Tail(s), Append(word, Head(s)), out)

contains_double_hyphen(s) ==
    \E i \in 1..(Len(s) - 1) : s[i] = 45 /\ s[i + 1] = 45

\* slug.replace("--", "-"): every non-overlapping "--", from the left
RECURSIVE replace_double_hyphen(_)
replace_double_hyphen(s) ==
    IF Len(s) < 2 THEN s
    ELSE IF s[1] = 45 /\ s[2] = 45
    THEN <<45>> \o replace_double_hyphen(SubSeq(s, 3, Len(s)))
    ELSE <<s[1]>> \o replace_double_hyphen(Tail(s))

\* while slug.contains("--") { slug = slug.replace("--", "-") }
RECURSIVE collapse_hyphens(_)
collapse_hyphens(s) ==
    IF contains_double_hyphen(s)
    THEN collapse_hyphens(replace_double_hyphen(s))
    ELSE s

\* trim_matches('-')
RECURSIVE trim_matches(_)
trim_matches(s) ==
    IF s = <<>> THEN s
    ELSE IF Head(s) = 45 THEN trim_matches(Tail(s))
    ELSE IF s[Len(s)] = 45 THEN trim_matches(SubSeq(s, 1, Len(s) - 1))
    ELSE s

blacklist ==
    {<<100, 101, 118>>,
     <<97, 100, 109, 105, 110>>,
     <<97, 112, 112>>,
     <<97, 112, 112, 115>>,
     <<119, 119, 119>>,
     <<116, 101, 115, 116>>,
     <<115, 116, 97, 103, 105, 110, 103>>,
     <<97, 112, 105>>,
     <<115, 109, 116, 112>>,
     <<109, 97, 105, 108>>,
     <<102, 116, 112>>,
     <<110, 115>>,
     <<99, 100, 110>>,
     <<108, 111, 99, 97, 108>>,
     <<114, 111, 111, 116>>,
     <<115, 121, 115>>,
     <<115, 121, 115, 116, 101, 109>>}

\* "tenant-"
TenantPrefix == <<116, 101, 110, 97, 110, 116, 45>>

\* generate_safe_slug(company_name); uuid8 is the first 8 characters of the
\* Uuid::new_v4() drawn when the slug is empty or blacklisted
generate_safe_slug(company_name, uuid8) ==
    LET kept == SelectSeq(to_lowercase(company_name),
                          LAMBDA c : is_ascii_alphanumeric(c)
                                        \/ c = 32 \/ c = 45)
        slug == trim_matches(collapse_hyphens(split_join(kept, <<>>, <<>>)))
    IN  IF slug \in blacklist \/ slug = <<>>
        THEN TenantPrefix \o uuid8
        ELSE slug

Reqs == 1..MaxReqs

\* AdminState.base_port
base_port == 10000

\* crate::auth::hash_password
hash_password(password) == <<"hash", password>>

\* the request bodies: "Ab", "AB" and "a -b" are three names, two of them with
\* one slug; "dev" is blacklisted and U+00C9 leaves nothing
Emails == {"", "a@x", "b@x"}
CompanyNames == {<<>>, <<65, 98>>, <<65, 66>>, <<97, 32, 45, 98>>, <<100, 101, 118>>, <<201>>}
Uuid8s == {<<117, 49>>}
ResetTokens == {"t1", "t0"}
NewPasswords == {"n1", "n2"}

\* a request: the handler it runs, where it is, its body and its locals.
\* taken_at_create tells whether the slug passed to create_tenant was the slug
\* of a tenant when the call was made; used_before whether a reset with the
\* same token had succeeded before this request looked the token up.
IdleReq ==
    [handler |-> "none", pc |-> "idle", email |-> "", password |-> "",
     company_name |-> <<>>, token |-> "", hash |-> <<>>, slug |-> <<>>,
     info |-> <<>>, response |-> <<>>, taken_at_create |-> FALSE,
     used_before |-> FALSE]

\* db.is_slug_taken(slug)
is_slug_taken(db, slug) ==
    \E i \in 1..Len(db.tenants) : db.tenants[i].slug = slug

\* db.get_user_by_email(email): Ok(Some((id, hash, _))) or Ok(None)
get_user_by_email(db, email) ==
    IF email \in DOMAIN db.users
    THEN <<[id |-> db.users[email].id, hash |-> db.users[email].hash]>>
    ELSE <<>>

\* db.get_max_port()
get_max_port(db) ==
    IF db.tenants = <<>> THEN <<>>
    ELSE <<CHOOSE m \in {db.tenants[i].port : i \in 1..Len(db.tenants)} :
            \A i \in 1..Len(db.tenants) : db.tenants[i].port <= m>>

\* db.get_password_reset_email(token): Ok(email) or Err
get_password_reset_email(db, token) ==
    IF \E e \in db.reset_tokens : e[1] = token
    THEN <<(CHOOSE e \in db.reset_tokens : e[1] = token)[2]>>
    ELSE <<>>

\* the counter loop: format!("{}-{}", base_slug, counter) until free
RECURSIVE unique_slug(_, _, _)
unique_slug(db, base_slug, counter) ==
    LET candidate == IF counter = 0 THEN base_slug
                     ELSE base_slug \o <<45, 48 + counter>>
    IN  IF is_slug_taken(db, candidate)
        THEN unique_slug(db, base_slug, counter + 1)
        ELSE candidate

\* the user with the given id
EmailOf(db, id) == CHOOSE e \in DOMAIN db.users : db.users[e].id = id

\* register_handler up to the first lock: the required-field check, the
\* hashing on the blocking pool, and generate_safe_slug
register_begin(r) ==
    /\ platform.reqs[r].pc = "idle"
    /\ \E email \in Emails, password \in {"", "p1"},
          company_name \in CompanyNames, uuid8 \in Uuid8s, hashed \in BOOLEAN :
        LET req == [IdleReq EXCEPT !.handler = "register", !.email = email,
                        !.password = password, !.company_name = company_name]
        IN
        platform' = [platform EXCEPT !.reqs[r] =
            IF email = "" \/ password = "" \/ company_name = <<>>
            THEN [req EXCEPT !.pc = "done",
                    !.response = [ok |-> FALSE, error |-> "required"]]
            ELSE IF ~ hashed
            THEN [req EXCEPT !.pc = "done",
                    !.response = [ok |-> FALSE, error |-> "Hash error"]]
            ELSE [req EXCEPT !.pc = "find_slug",
                    !.hash = hash_password(password),
                    !.slug = generate_safe_slug(company_name, uuid8)]]
    /\ UNCHANGED <<kvVars, paramVars, weights, histVars, samplerVars, tokVars,
                   loadVars, quantVars, tensor_op>>

\* the block "Find unique slug": one critical section of state.db
register_find_slug(r) ==
    /\ platform.reqs[r].pc = "find_slug"
    /\ platform' = [platform EXCEPT
            !.reqs[r].slug = unique_slug(platform, platform.reqs[r].slug, 0),
            !.reqs[r].pc = "create"]
    /\ UNCHANGED <<kvVars, paramVars, weights, histVars, samplerVars, tokVars,
                   loadVars, quantVars, tensor_op>>

\* the rest of register_handler, a second critical section: the email check,
\* create_user, create_tenant, and the rollback.  What create_tenant does
\* with a slug that is taken is the schema's business: it fails or it inserts.
register_create(r) ==
    /\ platform.reqs[r].pc = "create"
    /\ LET req == platform.reqs[r]
           taken == is_slug_taken(platform, req.slug)
           current_max == unwrap_or(get_max_port(platform), base_port)
           new_port == (IF current_max > base_port THEN current_max
                        ELSE base_port) + 1
           user_id == platform.next_id
       IN
       IF get_user_by_email(platform, req.email) # <<>>
       THEN platform' = [platform EXCEPT
                !.reqs[r].pc = "done",
                !.reqs[r].response =
                    [ok |-> FALSE, error |-> "Email is already registered"]]
       ELSE \E inserted \in IF taken THEN BOOLEAN ELSE {TRUE} :
            IF inserted
            THEN platform' = [platform EXCEPT
                    !.users = @ @@ (req.email :>
                        [id |-> user_id, hash |-> req.hash,
                         status |-> "pending", tenant |-> <<req.slug>>]),
                    !.next_id = @ + 1,
                    !.tenants = Append(@, [name |-> req.company_name,
                                           slug |-> req.slug,
                                           port |-> new_port,
                                           owner |-> user_id]),
                    !.log = Append(@, <<"saas_registration", user_id>>),
                    !.reqs[r].pc = "done",
                    !.reqs[r].taken_at_create = taken,
                    !.reqs[r].response = [ok |-> TRUE, slug |-> req.slug]]
            ELSE platform' = [platform EXCEPT
                    !.next_id = @ + 1,
                    !.reqs[r].pc = "done",
                    !.reqs[r].taken_at_create = taken,
                    !.reqs[r].response =
                        [ok |-> FALSE, error |-> "Failed to create tenant"]]
    /\ UNCHANGED <<kvVars, paramVars, weights, histVars, samplerVars, tokVars,
                   loadVars, quantVars, tensor_op>>

\* reset_password_handler up to the await: the token is looked up in one
\* critical section
reset_lookup(r) ==
    /\ platform.reqs[r].pc = "idle"
    /\ \E token \in ResetTokens, new_password \in NewPasswords :
        LET email == get_password_reset_email(platform, token)
            user == IF email = <<>> THEN <<>>
                    ELSE get_user_by_email(platform, email[1])
            reset_info == IF user = <<>> THEN <<>>
                          ELSE <<[email |-> email[1], id |-> user[1].id]>>
            req == [IdleReq EXCEPT !.handler = "reset", !.token = token,
                        !.password = new_password, !.info = reset_info,
                        !.used_before =
                            \E i \in 1..Len(platform.log) :
                                platform.log[i] = <<"password_reset", token>>]
        IN
        platform' = [platform EXCEPT !.reqs[r] =
            IF reset_info = <<>>
            THEN [req EXCEPT !.pc = "done",
                    !.response = [ok |-> FALSE, error |-> "Invalid or expired token"]]
            ELSE [req EXCEPT !.pc = "update"]]
    /\ UNCHANGED <<kvVars, paramVars, weights, histVars, samplerVars, tokVars,
                   loadVars, quantVars, tensor_op>>

\* reset_password_handler after the await of hash_password: a second critical
\* section updates the password and deletes the tokens of the email.  The log
\* keeps the token the request presented.
reset_update(r) ==
    /\ platform.reqs[r].pc = "update"
    /\ \E hashed \in BOOLEAN :
        LET req == platform.reqs[r]
            info == req.info[1]
            found == \E e \in DOMAIN platform.users :
                        platform.users[e].id = info.id
        IN
        IF hashed /\ found
        THEN platform' = [platform EXCEPT
                !.users[EmailOf(platform, info.id)].hash =
                    hash_password(req.password),
                !.reset_tokens = {e \in @ : e[2] # info.email},
                !.log = Append(@, <<"password_reset", req.token>>),
                !.reqs[r].pc = "done",
                !.reqs[r].hash = hash_password(req.password),
                !.reqs[r].response = [ok |-> TRUE]]
        ELSE platform' = [platform EXCEPT
                !.reqs[r].pc = "done",
                !.reqs[r].response =
                    [ok |-> FALSE, error |-> "Failed to update password"]]
    /\ UNCHANGED <<kvVars, paramVars, weights, histVars, samplerVars, tokVars,
                   loadVars, quantVars, tensor_op>>

\* the platform with one user, who has asked for a password reset
InitPlatform ==
    /\ KvIdle
    /\ SamplerIdle
    /\ TokIdle
    /\ LoadIdle
    /\ QuantIdle
    /\ tensor_op = <<>>
    /\ platform = [users |-> ("u@x" :> [id |-> 0, hash |-> hash_password("p0"),
                                        status |-> "active", tenant |-> <<>>]),
                   next_id |-> 1,
                   reset_tokens |-> {<<"t1", "u@x">>},
                   tenants |-> <<>>,
                   log |-> <<>>,
                   reqs |-> [r \in Reqs |-> IdleReq]]

NextPlatform ==
    \/ \E r \in Reqs : register_begin(r)
    \/ \E r \in Reqs : register_find_slug(r)
    \/ \E r \in Reqs : register_create(r)
    \/ \E r \in Reqs : reset_lookup(r)
    \/ \E r \in Reqs : reset_update(r)

SpecPlatform == InitPlatform /\ [][NextPlatform]_vars

----------------------------------------------------------------------------
(* Claims about KvCache, checked under SpecKv *)

\* C1 (as claimed): a forward pass requested at a position pos >= max_seq_len
\* fails with the GenerationOverflow error and writes no KV cache slot; it
\* neither writes into nor reads from a slot of another layer.
C1_OverflowRejected ==
    (last.op = "forward" /\ last.pos >= max_seq_len) =>
        /\ last.result = "GenerationOverflow"
        /\ last.written = {}
        /\ last.alien = {}

\* C2 (as claimed): in every reachable state of a KvCache, after any sequence
\* of advance() and reset() calls, 0 <= pos < max_seq_len.
C2_PosBelowMaxSeqLen == pos >= 0 /\ pos < max_seq_len

\* C3: for every layer < n_layers and pos < max_seq_len the slot (layer, pos)
\* is the kv_dim elements at offset ((layer * max_seq_len) + pos) * kv_dim of
\* its arena; what was last written through the slot (shadow_k, shadow_v; zero
\* if never written) is what keys(layer, seq_len) and values(layer, seq_len)
\* hold at [pos * kv_dim, (pos + 1) * kv_dim) for every seq_len > pos, so a
\* write to one slot changes no other slot.
C3_SlotAddressing ==
    \A sl \in Slots : \A d \in 0..(kv_dim - 1) :
        /\ key_cache[((sl[1] * max_seq_len) + sl[2]) * kv_dim + d] = shadow_k[sl][d]
        /\ value_cache[((sl[1] * max_seq_len) + sl[2]) * kv_dim + d] = shadow_v[sl][d]
        /\ \A sq \in (sl[2] + 1)..max_seq_len :
            /\ keys(sl[1], sq)[sl[2] * kv_dim + d] = shadow_k[sl][d]
            /\ values(sl[1], sq)[sl[2] * kv_dim + d] = shadow_v[sl][d]

\* C3 witness: a slot of layer 1 at position 1 has been overwritten with a
\* second vector while another slot of the same arena holds a different one.
C3_Witness ==
    /\ kv_dim >= 2 /\ n_layers >= 2 /\ max_seq_len >= 2
    /\ last.op = "key_at_mut" /\ last.layer = 1 /\ last.pos = 1
    /\ last.dirty
    /\ shadow_k[<<1, 1>>] = DataVec(30, kv_dim)
    /\ shadow_k[<<0, 1>>] = DataVec(10, kv_dim)
    /\ n_ops = 3

\* C4: after reset() every element of the key arena and of the value arena is
\* 0 and pos = 0, whatever writes and advances preceded it.
C4_ResetZeroes ==
    last.op = "reset" =>
        /\ \A i \in DOMAIN key_cache : key_cache[i] = 0
        /\ \A i \in DOMAIN value_cache : value_cache[i] = 0
        /\ DOMAIN key_cache = 0..(ArenaLen - 1)
        /\ DOMAIN value_cache = 0..(ArenaLen - 1)
        /\ pos = 0

\* C4 witness: a reset of a cache that held written values and had advanced.
C4_Witness ==
    /\ last.op = "reset" /\ last.dirty /\ last.pos > 0
    /\ last.dirtyv

----------------------------------------------------------------------------
(* Claims about Sampler::sample, checked under SpecGreedy and SpecSampler *)

Sampled == outcome # <<>>

\* id i - 1 holds a maximum of lg
IsMaxAt(lg, i) == \A j \in 1..Len(lg) : RLeq(lg[j], lg[i])

\* the lowest position that holds a maximum of lg
FirstMax(lg) == CHOOSE i \in 1..Len(lg) : IsMaxAt(lg, i) /\ \A j \in 1..(i - 1) : ~ IsMaxAt(lg, j)

\* C5: with temperature <= 0 the returned id does not depend on the random
\* draw (equal inputs give equal ids), it is an argmax of the logits after the
\* repeat penalty, and the random source is never consulted.
C5_GreedyDeterministic ==
    (Sampled /\ RLeq(config.temperature, RZero)) =>
        /\ outcome.status = "ok"
        /\ outcome.rng_calls = 0
        /\ \A r \in Draws :
            sample_result(outcome.input, last_tokens, config, r).token = outcome.token
        /\ outcome.token + 1 \in 1..Len(outcome.input)
        /\ IsMaxAt(outcome.penalised, outcome.token + 1)
        /\ logits = outcome.penalised

\* C5 witness: a greedy call on which the repeat penalty changed the winner.
C5_Witness ==
    /\ Sampled /\ config.temperature = RZero
    /\ outcome.penalised # outcome.input
    /\ ~ IsMaxAt(outcome.input, outcome.token + 1)

\* C6 (as claimed): when several logits share the maximum, the greedy argmax
\* path and the descending sort before top-k both pick the lowest index among
\* the tied entries.
C6_FirstOccurrenceWins ==
    Sampled =>
        IF RLeq(config.temperature, RZero)
        THEN outcome.token = FirstMax(outcome.logits) - 1
        ELSE outcome.sorted # <<>> /\ outcome.sorted[1][1] = FirstMax(outcome.logits) - 1

\* C7: for a nonempty logits vector, temperature >= 0, top_p in [0, 1], any
\* top_k and repeat_penalty > 0, the candidates left after top-k and top-p are
\* nonempty and sample returns an id in [0, vocab_size) without failing, for
\* every random draw.
C7_SampleInRange ==
    Sampled =>
        /\ outcome.status = "ok"
        /\ outcome.token >= 0 /\ outcome.token < Len(outcome.input)
        /\ RLess(RZero, config.temperature) =>
            /\ outcome.cands # <<>>
            /\ outcome.kept # <<>>
            /\ \E i \in 1..Len(outcome.kept) : outcome.kept[i][1] = outcome.token

\* C7 witness: top_k = 0 and top_p = 0 on a full vocabulary, largest draw.
C7_Witness ==
    /\ Sampled /\ RLess(RZero, config.temperature)
    /\ config.top_k = 0 /\ config.top_p = RZero
    /\ Len(outcome.input) = MaxVocab
    /\ outcome.r = R(99, 100)
    /\ Len(outcome.cands) = MaxVocab /\ Len(outcome.kept) = 1

\* C8 (as claimed): with top_k = 1 and temperature > 0, for any logits, top_p
\* and draw, sample returns the index argmax returns on the penalised logits.
C8_TopKOneIsArgmax ==
    (Sampled /\ config.top_k = 1 /\ RLess(RZero, config.temperature)) =>
        outcome.token = argmax(outcome.penalised)

\* the ids in the last repeat_last_n entries of last_tokens
WindowIds ==
    LET n == IF Len(last_tokens) < config.repeat_last_n
             THEN Len(last_tokens) ELSE config.repeat_last_n
    IN {last_tokens[j] : j \in (Len(last_tokens) - n + 1)..Len(last_tokens)}

\* C9: with repeat_penalty > 1 the penalty step strictly lowers the logit of
\* every id in the last repeat_last_n entries of last_tokens that has a
\* positive logit and leaves every id outside that window unchanged; with
\* repeat_penalty = 1 it changes no logit.
C9_RepeatPenalty ==
    Sampled =>
        /\ Len(outcome.penalised) = Len(outcome.input)
        /\ RLess(ROne, config.repeat_penalty) =>
            \A i \in 1..Len(outcome.input) :
                /\ (i - 1 \in WindowIds /\ RLess(RZero, outcome.input[i])) =>
                    RLess(outcome.penalised[i], outcome.input[i])
                /\ (i - 1 \notin WindowIds) =>
                    outcome.penalised[i] = outcome.input[i]
        /\ config.repeat_penalty = ROne => outcome.penalised = outcome.input

\* C9 witness: penalty > 1, a positive-logit id inside the window and a
\* positive-logit id that occurs in last_tokens only before the window.
C9_Witness ==
    /\ Sampled /\ RLess(ROne, config.repeat_penalty)
    /\ config.repeat_last_n = 1 /\ last_tokens = <<0, 1>>
    /\ Len(outcome.input) >= 2
    /\ RLess(RZero, outcome.input[1]) /\ RLess(RZero, outcome.input[2])
    /\ outcome.penalised[1] = outcome.input[1]
    /\ RLess(outcome.penalised[2], outcome.input[2])

\* the cumulative probability of the first n candidates
CumProb(ps, n) == RSum(SubSeq(ps, 1, n))

\* C10: when top_p < 1 the candidates kept by the top-p step are the shortest
\* prefix of the descending-sorted candidates whose cumulative probability
\* strictly exceeds top_p (all of them when no prefix does), renormalised to
\* sum to 1.
C10_TopPShortestPrefix ==
    (Sampled /\ RLess(RZero, config.temperature) /\ RLess(config.top_p, ROne)) =>
        LET ps == outcome.probs
            kept == outcome.kept
            n == Len(kept)
        IN
        /\ \A i \in 1..(Len(ps) - 1) : RLeq(ps[i + 1][2], ps[i][2])
        /\ n >= 1 /\ n <= Len(ps)
        /\ \A m \in 1..(n - 1) : ~ RLess(config.top_p, CumProb(ps, m))
        /\ RLess(config.top_p, CumProb(ps, n)) \/ n = Len(ps)
        /\ \A i \in 1..n :
            /\ kept[i][1] = ps[i][1]
            /\ kept[i][2] = RDiv(ps[i][2], CumProb(ps, n))
        /\ RSum(kept) = ROne

\* C10 witness: three candidates of which top-p keeps exactly two.
C10_Witness ==
    /\ Sampled /\ RLess(RZero, config.temperature)
    /\ config.top_p = R(1, 2)
    /\ Len(outcome.probs) = 3 /\ Len(outcome.kept) = 2
    /\ outcome.kept[1][2] # outcome.probs[1][2]

----------------------------------------------------------------------------
(* Claims on the tokenizer, checked under SpecTokenizer *)

Range(f) == {f[i] : i \in DOMAIN f}

\* the vocabulary holds a token for every byte: the byte itself or its escape
HasAllByteTokens(vocab) ==
    \A b \in 0..255 : <<b>> \in Range(vocab) \/ hex_string(b) \in Range(vocab)

\* C11: with a vocabulary that has a token for every byte 0x00-0xFF, decoding
\* the ids that encode produced for a text gives back that text
C11_RoundTrip ==
    ( /\ decoded # <<>>
      /\ HasAllByteTokens(tokenizer.vocab) )
    => decoded[1] = text

\* the string a token stands for: the literal byte of an escape <0xNN>, the
\* token string otherwise
literal(s) ==
    IF \E b \in 0..255 : s = hex_string(b)
    THEN <<CHOOSE b \in 0..255 : s = hex_string(b)>>
    ELSE s

RECURSIVE literals(_, _)
literals(tk, ids) ==
    IF ids = <<>> THEN <<>>
    ELSE literal(decode_token(tk, Head(ids))) \o literals(tk, Tail(ids))

\* C12: decode gives, for every id, the literal byte of an escape token
\* <0xNN> and the unchanged string of any other token, concatenated in order
C12_EscapesDecodeToBytes ==
    decoded # <<>> => decoded[1] = literals(tokenizer, tokens)

\* C13: in every tokenizer that from_gguf or fallback built, the reverse
\* mapping takes the string of every id i below vocab_size back to i
C13_ReverseMapping ==
    (tokenizer # <<>> /\ tokenizer.status = "ok")
    => \A i \in 0..(Len(tokenizer.vocab) - 1) :
          tokenizer.token_to_id[tokenizer.vocab[i + 1]] = i

----------------------------------------------------------------------------
(* Claims on loading, checked under SpecLoad *)

\* the extent the directory declares for the tensor, as unbounded integers
DeclaredStart(m, i) == m.gguf.data_offset + m.gguf.tensors[i + 1].offset
DeclaredEnd(m, i) == DeclaredStart(m, i) + m.gguf.tensors[i + 1].size

\* C14: tensor_data(index) returns an error, or exactly the bytes
\* [data_offset + offset, data_offset + offset + size_bytes) inside the
\* mapping; an index out of range or an extent past the end of the mapping,
\* overflowing or not, gives an error
C14_TensorDataInBounds ==
    slice # <<>> =>
        LET i == slice.tensor_index
            r == slice.result
        IN  /\ \/ r.status = "err"
               \/ /\ r.status = "ok"
                  /\ i < Len(model.gguf.tensors)
                  /\ r.start = DeclaredStart(model, i)
                  /\ r.end = DeclaredEnd(model, i)
                  /\ r.end <= model.mmap_len
            /\ i >= Len(model.gguf.tensors) => r.status = "err"
            /\ ( /\ i < Len(model.gguf.tensors)
                 /\ DeclaredEnd(model, i) > model.mmap_len )
               => r.status = "err"

\* a tensor of the file carries a quantization tag outside the supported set
HasUnsupportedWeight(f) ==
    \E i \in 1..Len(f.tensors) : f.tensors[i].ggml_type \notin SupportedTypes

\* C16: loading a file with a valid header in which a weight tensor carries
\* an unsupported quantization tag fails; load returns no model handle for it
C16_LoadRejectsUnsupportedQuant ==
    ( /\ model # <<>>
      /\ file.exists /\ file.header = "valid"
      /\ HasUnsupportedWeight(file) )
    => model.status = "err"

\* the keys that ModelParams may not default
RequiredKeys ==
    {"embedding_length", "feed_forward_length", "block_count",
     "attention.head_count", "attention.head_count_kv", "context_length",
     "vocab_size"}

\* C17: ModelParams are built only when every key other than rope.freq_base
\* and attention.layer_norm_rms_epsilon is present in the metadata
C17_RequiredKeysPresent ==
    (params # <<>> /\ params.status = "ok")
    => \A k \in RequiredKeys :
          get_u32(model.gguf,
                  Key(unwrap_or(architecture(model.gguf), "llama"), k)) # <<>>

\* C18: every ModelParams that from_gguf returns has head_dim = dim / n_heads,
\* n_heads > 0, n_kv_heads dividing n_heads, vocab_size > 0, max_seq_len > 0
C18_ParamsInvariants ==
    (params # <<>> /\ params.status = "ok")
    => /\ params.n_heads > 0
       /\ params.head_dim = params.dim \div params.n_heads
       /\ params.n_kv_heads > 0
       /\ params.n_heads % params.n_kv_heads = 0
       /\ params.vocab_size > 0
       /\ params.max_seq_len > 0

\* the projections without which a layer cannot run
RequiredProjections ==
    {"attn_q", "attn_k", "attn_v", "attn_output", "ffn_gate", "ffn_up",
     "ffn_down"}

\* C19: a weight index is built only when every layer has all of attn_q,
\* attn_k, attn_v, attn_output, ffn_gate, ffn_up and ffn_down
C19_IndexHasAllProjections ==
    transformer_weights # <<>>
    => \A l \in DOMAIN transformer_weights.layers :
          \A w \in RequiredProjections :
              transformer_weights.layers[l][w] # <<>>

----------------------------------------------------------------------------
(* Claims on dequantization, checked under SpecQuant *)

BytesNeeded(ggml_type, n_elements) ==
    ((n_elements + block_size(ggml_type) - 1) \div block_size(ggml_type))
        * type_size(ggml_type)

\* the call asks for more elements than its bytes hold
TooFewBytes(call) ==
    \/ call.n_elements % block_size(call.ggml_type) # 0
    \/ /\ call.fn = "dequantize_row"
       /\ SliceLen(call.data) < BytesNeeded(call.ggml_type, call.n_elements)
    \/ /\ call.fn = "forward"
       /\ SliceLen(call.data)
            < (call.token + 1) * BytesNeeded(call.ggml_type, call.n_elements)

\* C20: when the bytes available are fewer than the requested elements need
\* (a row past the end of token_embd, or an element count that is not a
\* multiple of the block size), dequantize_row and forward fail with an
\* error, and never report success with elements left unfilled
C20_ShortDataErrors ==
    ( /\ quant_in # <<>>
      /\ quant_in.ggml_type \in SupportedTypes
      /\ TooFewBytes(quant_in) )
    => quant_out.status = "err"

----------------------------------------------------------------------------
(* Claims on forward, checked under SpecForward *)

\* the arena indices of the slot (l, p), and of the slots at p of all layers
SlotIndices(l, p) ==
    (((l * max_seq_len) + p) * kv_dim)..(((l * max_seq_len) + p) * kv_dim
                                          + kv_dim - 1)
PassSlots(p) == UNION {SlotIndices(l, p) : l \in 0..(n_layers - 1)}

\* the step is a call of forward
ForwardStep == last'.op = "forward" /\ n_ops' = n_ops + 1

\* C21: a successful forward(token, pos) with pos < max_seq_len writes, for
\* every layer, exactly the key slot and the value slot at (l, pos); every
\* other element of the two arenas and the position counter stay as they were
C21_ForwardFrame ==
    [][ ( /\ ForwardStep
          /\ last'.result = "ok"
          /\ last'.pos < max_seq_len )
        => /\ pos' = pos
           /\ DOMAIN key_cache' = DOMAIN key_cache
           /\ DOMAIN value_cache' = DOMAIN value_cache
           /\ last'.written = Tag("k", PassSlots(last'.pos))
                                \cup Tag("v", PassSlots(last'.pos))
           /\ \A i \in DOMAIN key_cache :
                /\ (key_cache'[i] # key_cache[i]) <=> i \in PassSlots(last'.pos)
                /\ (value_cache'[i] # value_cache[i])
                        <=> i \in PassSlots(last'.pos)
      ]_vars

\* a second successful pass, at position 1 of a two-layer model, after a pass
\* that filled position 0
C21_Witness ==
    /\ last.op = "forward" /\ last.result = "ok"
    /\ last.pos = 1 /\ n_layers = 2 /\ n_ops = 2
    /\ key_cache[0] # 0 /\ value_cache[0] # 0
    /\ key_cache[((1 * max_seq_len) + 1) * kv_dim] # 0
    /\ key_cache[0] # key_cache[kv_dim]

\* C28: when forward returns an error, the KV cache is exactly as it was
\* before the call: no key or value slot of any layer has been written
C28_ErrorLeavesCache ==
    [][ (ForwardStep /\ last'.result = "err")
        => /\ key_cache' = key_cache
           /\ value_cache' = value_cache
           /\ last'.written = {}
      ]_vars

----------------------------------------------------------------------------
(* Claim on grouped-query attention, checked under SpecGqa *)

\* the query heads that attend with KV head kvh
HeadsOf(kvh) == {h \in 0..(n_heads - 1) : kv_head(h) = kvh}

Consecutive(S) == \A a \in S, b \in S : \A h \in a..b : h \in S

\* C24: every query head h attends with KV head kv_h = h * n_kv_heads /
\* n_heads < n_kv_heads and reads only elements [kv_h * head_dim, (kv_h + 1) *
\* head_dim) of each cached position of the current layer; each KV head
\* serves exactly n_heads / n_kv_heads consecutive query heads
C24_GqaGroups ==
    (last.op = "forward" /\ last.result = "ok") =>
        /\ \A h \in 0..(n_heads - 1) :
            /\ kv_head(h) < n_kv_heads
            /\ \A l \in 0..(n_layers - 1) :
                /\ HeadGather(l, last.pos + 1, h) =
                     {((l * max_seq_len) + t) * kv_dim + e :
                        t \in 0..last.pos,
                        e \in (kv_head(h) * head_dim)
                                ..((kv_head(h) + 1) * head_dim - 1)}
                /\ Tag("k", HeadGather(l, last.pos + 1, h)) \subseteq last.read
                /\ Tag("v", HeadGather(l, last.pos + 1, h)) \subseteq last.read
        /\ \A kvh \in 0..(n_kv_heads - 1) :
            /\ Cardinality(HeadsOf(kvh)) = n_heads \div n_kv_heads
            /\ Consecutive(HeadsOf(kvh))

----------------------------------------------------------------------------
(* Claim on the generation loop, checked under SpecGenerate *)

\* the step is a forward pass of the generation loop
GenerateStep == last'.op = "generate" /\ n_ops' = n_ops + 1

\* C22: within one generation every cache entry attention reads at layer l in
\* the pass at position p is an entry (l, t) with t in [0, p], and what it
\* reads there is what the pass at position t wrote: the write at (l, p)
\* precedes the read of the same pass, the write at p precedes the read at
\* p + 1, and no entry with t > p is read
C22_ReadsAfterWrites ==
    [][ GenerateStep =>
        /\ \A e \in last'.seen :
            \E l \in 0..(n_layers - 1), t \in 0..last'.pos,
               d \in 0..(kv_dim - 1) :
                /\ e[2] = ((l * max_seq_len) + t) * kv_dim + d
                /\ e[3] # 0
                /\ e[3] = IF e[1] = "k" THEN shadow_k'[<<l, t>>][d]
                                        ELSE shadow_v'[<<l, t>>][d]
        /\ last'.result = "ok" =>
            {e[2] : e \in last'.seen} =
                UNION {SlotIndices(l, t) :
                        l \in 0..(n_layers - 1), t \in 0..last'.pos}
      ]_vars

\* the pass at position 1 of a two-layer model has read, at layer 1, what the
\* pass at position 0 wrote and what it wrote itself
C22_Witness ==
    /\ last.op = "generate" /\ last.result = "ok"
    /\ last.pos = 1 /\ pos = 2 /\ n_layers = 2
    /\ <<"k", LayerOffset(1), shadow_k[<<1, 0>>][0]>> \in last.seen
    /\ <<"v", LayerOffset(1) + kv_dim, shadow_v[<<1, 1>>][0]>> \in last.seen
    /\ shadow_k[<<1, 0>>][0] # shadow_k[<<1, 1>>][0]
    /\ shadow_k[<<1, 0>>][0] # 0

----------------------------------------------------------------------------
(* Claim on the merge loop of encode, checked under SpecTokenizer *)

\* the id of the vocab entry tokens i and i + 1 of toks concatenate to, if any
MergedId(tk, toks, i) ==
    get(tk.token_to_id,
        decode_token(tk, toks[i]) \o decode_token(tk, toks[i + 1]))

ScoreOf(tk, id) == IF id < Len(tk.scores) THEN tk.scores[id + 1] ELSE 0

Mergeable(tk, toks) ==
    {i \in 1..(Len(toks) - 1) : MergedId(tk, toks, i) # <<>>}

\* every round of the loop from toks on merges a pair of highest score, and
\* the loop runs at most budget rounds
RECURSIVE RoundsOk(_, _, _)
RoundsOk(tk, toks, budget) ==
    LET best == best_merge(tk, toks, 1,
                           [score |-> NegInf, idx |-> -1, id |-> 0])
    IN  IF Len(toks) < 2 \/ best.idx = -1 THEN TRUE
        ELSE /\ budget > 0
             /\ best.idx \in Mergeable(tk, toks)
             /\ best.id = MergedId(tk, toks, best.idx)[1]
             /\ \A i \in Mergeable(tk, toks) :
                    ScoreOf(tk, MergedId(tk, toks, i)[1]) <= best.score
             /\ RoundsOk(tk, apply_merge(toks, best.idx, best.id), budget - 1)

\* C23: the merge loop of encode ends after at most len - 1 merges, each of
\* them replacing the adjacent pair whose concatenation is a vocab entry of
\* highest score, and on return no adjacent pair of the output tokens
\* concatenates to a vocab string
C23_MergeLoop ==
    IF tokenizer = <<>> THEN TRUE
    ELSE (tokenizer.status = "ok" /\ text # <<>>) =>
        /\ RoundsOk(tokenizer, byte_tokens(tokenizer, text), Len(text) - 1)
        /\ Len(tokens) >= 1
        /\ Mergeable(tokenizer, tokens) = {}

----------------------------------------------------------------------------
(* Claim on matmul_parallel, checked under SpecMatmul *)

\* C25: matmul_parallel returns only after every output row has been written
\* exactly once, no row is ever written twice, and the output it returns is
\* that of the sequential matmul row for row, whatever the interleaving of
\* the worker threads
C25_ParallelEqualsSequential ==
    IF tensor_op = <<>> THEN TRUE
    ELSE tensor_op.fn = "matmul_parallel" =>
        /\ \A i \in 0..(tensor_op.rows - 1) : tensor_op.writes[i] <= 1
        /\ tensor_op.returned =>
            /\ \A i \in 0..(tensor_op.rows - 1) : tensor_op.writes[i] = 1
            /\ tensor_op.output =
                 matmul(StaleOutput(tensor_op.rows), tensor_op.mat,
                        tensor_op.vec_in, tensor_op.rows, tensor_op.cols)
            /\ \A r \in 1..tensor_op.rows :
                 tensor_op.output[r] =
                    dot_sum(row_of(tensor_op.mat, r - 1, tensor_op.cols),
                            tensor_op.vec_in, tensor_op.cols)

\* a call over three rows has returned, both threads having written rows,
\* the second thread the first row
C25_Witness ==
    IF tensor_op = <<>> THEN FALSE
    ELSE /\ tensor_op.fn = "matmul_parallel"
         /\ tensor_op.returned
         /\ tensor_op.rows = 3 /\ tensor_op.cols = 2
         /\ tensor_op.writer[0] = 2 /\ tensor_op.writer[1] = 1
         /\ tensor_op.output # StaleOutput(3)
         /\ tensor_op.output[1] # tensor_op.output[2]

----------------------------------------------------------------------------
(* Claim on the elementwise primitives, checked under SpecTensor *)

\* C27: elementwise_add and elementwise_mul enforce that both operands have
\* the same length: a call with operands of different lengths is rejected and
\* leaves a as it was, rather than operating on the common prefix
C27_LengthsEnforced ==
    IF tensor_op = <<>> THEN TRUE
    ELSE (tensor_op.fn \in {"add", "mul"}
            /\ Len(tensor_op.a) # Len(tensor_op.b)) =>
        /\ tensor_op.result.status # "ok"
        /\ tensor_op.result.a = tensor_op.a

----------------------------------------------------------------------------
(* Claim on dequantize_q4_k, checked under SpecQ4K *)

\* the eight scales and the eight mins of the claim, in plain arithmetic: the
\* two operands of each | occupy different bits, so | is +
ClaimedScales(raw) ==
    [s \in 0..7 |->
        IF s < 4 THEN raw[2 * s] % 64
        ELSE (raw[2 * (s - 4)] \div 64) + 4 * (raw[8 + (s - 4)] % 16)]
ClaimedMins(raw) ==
    [s \in 0..7 |->
        IF s < 4 THEN raw[2 * s + 1] % 64
        ELSE (raw[2 * (s - 4) + 1] \div 64) + 4 * (raw[8 + (s - 4)] \div 16)]

\* the 4-bit value of element idx of a block
Nibble(block, idx) ==
    LET byte == block[16 + ((idx \div 32) * 16 + (idx % 32) \div 2) + 1]
    IN  IF idx % 2 = 0 THEN byte % 16 ELSE byte \div 16

\* C26: for every 12-byte scale field raw, the output of dequantize_q4_k is
\* produced with scales[i] = raw[2i] & 0x3F, mins[i] = raw[2i+1] & 0x3F,
\* scales[i+4] = (raw[2i] >> 6) | ((raw[8+i] & 0x0F) << 2) and mins[i+4] =
\* (raw[2i+1] >> 6) | ((raw[8+i] >> 4) << 2); each of them lies in [0, 63];
\* the first decode of the function has no effect on the output
C26_Q4KScales ==
    IF quant_in = <<>> THEN TRUE
    ELSE quant_in.fn = "dequantize_q4_k" =>
        LET block == quant_in.data
            raw == [i \in 0..11 |-> block[5 + i]]
            d == read_f16(block, 0)
            dmin == read_f16(block, 2)
        IN  /\ q4k_scales(raw) = ClaimedScales(raw)
            /\ q4k_mins(raw) = ClaimedMins(raw)
            /\ \A s \in 0..7 :
                /\ ClaimedScales(raw)[s] \in 0..63
                /\ ClaimedMins(raw)[s] \in 0..63
            /\ \A idx \in 0..255 :
                quant_out.output[idx + 1] =
                    d * ClaimedScales(raw)[idx \div 32] * Nibble(block, idx)
                      - dmin * ClaimedMins(raw)[idx \div 32]

\* a block whose first decode differs from the second in a scale, and whose
\* second decode sets high bits from bytes 8..11, has been dequantized
C26_Witness ==
    IF quant_in = <<>> THEN FALSE
    ELSE /\ quant_in.fn = "dequantize_q4_k"
         /\ LET raw == scales_raw(quant_in.data) IN
             /\ q4k_sc(raw) # q4k_scales(raw)
             /\ q4k_mn(raw) # q4k_mins(raw)
             /\ q4k_scales(raw)[5] > 3
             /\ q4k_mins(raw)[5] > 3
         /\ \E i \in 1..256 : quant_out.output[i] # 0
         /\ read_f16(quant_in.data, 2) # 0

----------------------------------------------------------------------------
(* Claims on the self-service handlers, checked under SpecPlatform *)

SuccessfulResets(token) ==
    {r \in Reqs : /\ platform.reqs[r].handler = "reset"
                  /\ platform.reqs[r].token = token
                  /\ platform.reqs[r].pc = "done"
                  /\ platform.reqs[r].response.ok}

\* C29: a password reset token changes a password at most once: of the
\* concurrent reset_password_handler calls that present one token at most one
\* updates the password and returns ok, and no call that looks the token up
\* after a successful reset is let through
C29_TokenUsedOnce ==
    IF platform = <<>> THEN TRUE
    ELSE /\ \A token \in ResetTokens :
            Cardinality(SuccessfulResets(token)) <= 1
         /\ \A token \in ResetTokens :
            Cardinality({i \in 1..Len(platform.log) :
                platform.log[i] = <<"password_reset", token>>}) <= 1
         /\ \A r \in Reqs :
            (platform.reqs[r].handler = "reset"
                /\ platform.reqs[r].used_before) =>
                    platform.reqs[r].info = <<>>

\* C30: the slug passed to create_tenant is not the slug of a tenant when the
\* tenant is created, and no two tenants have one slug
C30_SlugUniqueAtCreate ==
    IF platform = <<>> THEN TRUE
    ELSE /\ \A r \in Reqs : ~ platform.reqs[r].taken_at_create
         /\ \A i \in 1..Len(platform.tenants),
               j \in 1..Len(platform.tenants) :
                platform.tenants[i].slug = platform.tenants[j].slug => i = j
====
